---- MODULE Spec2Model ----
(***************************************************************************)
(* TWOM boss timer (AstrBot plugin): the timer store, the reminder jobs,   *)
(* the permission / visibility gate and the request handlers of            *)
(* src/main.py, modelled as one state machine.                             *)
(*                                                                         *)
(* Typed text (aliases, time fragments, the interval setting) is a         *)
(* sequence of one-character strings and is parsed character by character. *)
(* An identifier (group id, user id, boss key, unified_msg_origin, timer   *)
(* id, job id) is the sequence of its "_"-separated segments: <<"1", "2",  *)
(* "wdk">> is the string "1_2_wdk".  Every str.startswith of the source    *)
(* tests a prefix that ends in "_", and every str.split splits at "_", so  *)
(* both are exact on segments.  An instant is a number of seconds since    *)
(* 2024-01-01 00:00:00 in the configured zone.                             *)
(***************************************************************************)
EXTENDS Integers, Sequences, FiniteSets, TLC

\* ------------------------------------------------------------------ text

\* Python's None / "" (both falsy) for an optional text.
None == <<>>

\* s.startswith(p + "_") for identifiers s and p
HasPrefix(s, p) == Len(s) > Len(p) /\ SubSeq(s, 1, Len(p)) = p

\* "_" in s, for an identifier s
HasUnderscore(s) == Len(s) > 1

\* "c" in s
Contains(s, c) == \E i \in 1..Len(s) : s[i] = c

\* Index of the first occurrence of c in s (Len(s)+1 when there is none).
FirstIndexOf(s, c) ==
    IF Contains(s, c) THEN CHOOSE i \in 1..Len(s) : s[i] = c /\ \A j \in 1..(i-1) : s[j] # c
    ELSE Len(s) + 1

\* The part of s before the first c.
FirstSegment(s, c) == SubSeq(s, 1, FirstIndexOf(s, c) - 1)

RECURSIVE Strip(_)
\* s.strip() for blanks
Strip(s) ==
    IF s = <<>> THEN s
    ELSE IF Head(s) = " " THEN Strip(Tail(s))
    ELSE IF s[Len(s)] = " " THEN Strip(SubSeq(s, 1, Len(s) - 1))
    ELSE s

RECURSIVE SplitOn(_, _)
\* s.split(c): the pieces between the occurrences of c
SplitOn(s, c) ==
    IF ~Contains(s, c) THEN <<s>>
    ELSE <<FirstSegment(s, c)>> \o SplitOn(SubSeq(s, FirstIndexOf(s, c) + 1, Len(s)), c)

\* s.split(): the non-empty pieces between blanks
SplitBlank(s) == SelectSeq(SplitOn(s, " "), LAMBDA p : p # <<>>)

RECURSIVE Join(_)
\* The string spelled by a character sequence.
Join(cs) == IF cs = <<>> THEN "" ELSE Head(cs) \o Join(Tail(cs))

\* The identifier spelled by a character sequence: its split at "_".
Ident(cs) ==
    IF cs = <<>> THEN None
    ELSE [i \in 1..Len(SplitOn(cs, "_")) |-> Join(SplitOn(cs, "_")[i])]

\* The letters str.lower() maps, and their images.
UpperCase == <<"A","B","C","D","E","F","G","H","I","J","K","L","M","N","O","P","Q","R","S","T","U","V","W","X","Y","Z">>
LowerCase == <<"a","b","c","d","e","f","g","h","i","j","k","l","m","n","o","p","q","r","s","t","u","v","w","x","y","z">>

\* c.lower() of one character
LowerChar(c) ==
    IF \E i \in 1..Len(UpperCase) : UpperCase[i] = c
    THEN LowerCase[CHOOSE i \in 1..Len(UpperCase) : UpperCase[i] = c]
    ELSE c

\* s.lower()
Lower(s) == [i \in 1..Len(s) |-> LowerChar(s[i])]

\* The decimal digits, in order.
DigitChars == <<"0","1","2","3","4","5","6","7","8","9">>

\* c.isdigit() / \d of one character
IsDigit(c) == c \in {"0","1","2","3","4","5","6","7","8","9"}

\* int(c) of one digit
DigitVal(c) == (CHOOSE d \in 1..10 : DigitChars[d] = c) - 1

\* s.isdigit()
IsDigitStr(s) == s # <<>> /\ \A i \in 1..Len(s) : IsDigit(s[i])

RECURSIVE ToInt(_)
\* int(s) of a digit string
ToInt(s) == IF s = <<>> THEN 0 ELSE ToInt(SubSeq(s, 1, Len(s) - 1)) * 10 + DigitVal(s[Len(s)])

RECURSIVE ToStr(_)
\* str(n) / f"{n}" of a natural number
ToStr(n) == IF n < 10 THEN <<DigitChars[n + 1]>> ELSE ToStr(n \div 10) \o <<DigitChars[(n % 10) + 1]>>

\* ------------------------------------------------------------------ time

\* The calendar of datetime: leap years, month lengths, days elapsed.
IsLeap(y) == (y % 4 = 0 /\ y % 100 # 0) \/ y % 400 = 0

DaysInMonth(y, m) ==
    IF m = 2 THEN (IF IsLeap(y) THEN 29 ELSE 28)
    ELSE IF m \in {4, 6, 9, 11} THEN 30 ELSE 31

RECURSIVE DaysBeforeMonth(_, _)
DaysBeforeMonth(y, m) == IF m <= 1 THEN 0 ELSE DaysBeforeMonth(y, m - 1) + DaysInMonth(y, m - 1)

RECURSIVE DaysBeforeYear(_)
DaysBeforeYear(y) ==
    IF y <= 2024 THEN 0 ELSE DaysBeforeYear(y - 1) + (IF IsLeap(y - 1) THEN 366 ELSE 365)

\* datetime(y, mo, d, h, mi, s) raises ValueError outside these ranges
ValidDateTime(y, mo, d, h, mi, s) ==
    /\ mo \in 1..12
    /\ d >= 1 /\ d <= DaysInMonth(y, mo)
    /\ h \in 0..23 /\ mi \in 0..59 /\ s \in 0..59

\* datetime(y, mo, d, h, mi, s, tzinfo=timezone) as an instant
MkTime(y, mo, d, h, mi, s) ==
    ((DaysBeforeYear(y) + DaysBeforeMonth(y, mo) + d - 1) * 24 + h) * 3600 + mi * 60 + s

\* t.year
YearOf(t) == CHOOSE y \in 2024..2030 : MkTime(y, 1, 1, 0, 0, 0) <= t /\ t < MkTime(y + 1, 1, 1, 0, 0, 0)

\* t.replace(hour=0, minute=0, second=0, microsecond=0)
DayStart(t) == t - (t % 86400)

\* t.replace(minute=0, second=0, microsecond=0)
HourStart(t) == t - (t % 3600)

\* timedelta(hours=h, minutes=m, seconds=s)
TimeDelta(h, m, s) == h * 3600 + m * 60 + s

\* Number of digits (0, 1 or 2) that \d{1,2} takes at position i of s.
NumLen(s, i) ==
    IF i <= Len(s) /\ IsDigit(s[i])
    THEN (IF i + 1 <= Len(s) /\ IsDigit(s[i + 1]) THEN 2 ELSE 1)
    ELSE 0

\* re.match(r"(\d{1,2}):(\d{1,2})(?::(\d{1,2}))?", s): groups 1..3, second 0 when absent
MatchTime(s) ==
    LET n1 == NumLen(s, 1)
        p2 == n1 + 2
        n2 == NumLen(s, p2)
        p3 == p2 + n2
        n3 == IF p3 <= Len(s) /\ s[p3] = ":" THEN NumLen(s, p3 + 1) ELSE 0
        ok == n1 > 0 /\ n1 + 1 <= Len(s) /\ s[n1 + 1] = ":" /\ n2 > 0
    IN  IF ok
        THEN [ok |-> TRUE, hour |-> ToInt(SubSeq(s, 1, n1)), minute |-> ToInt(SubSeq(s, p2, p2 + n2 - 1)),
              second |-> IF n3 > 0 THEN ToInt(SubSeq(s, p3 + 1, p3 + n3)) ELSE 0]
        ELSE [ok |-> FALSE, hour |-> 0, minute |-> 0, second |-> 0]

\* re.match(r"(\d{1,2})-(\d{1,2})", s)
MatchDate(s) ==
    LET n1 == NumLen(s, 1)
        p2 == n1 + 2
        n2 == NumLen(s, p2)
        ok == n1 > 0 /\ n1 + 1 <= Len(s) /\ s[n1 + 1] = "-" /\ n2 > 0
    IN  IF ok
        THEN [ok |-> TRUE, month |-> ToInt(SubSeq(s, 1, n1)), day |-> ToInt(SubSeq(s, p2, p2 + n2 - 1))]
        ELSE [ok |-> FALSE, month |-> 0, day |-> 0]

\* The full-width colon (U+FF1A) as one character of a text.
FullWidthColon == "fwcolon"

\* time_str.strip().replace(<full-width colon>, ":")
Normalize(time_str) ==
    LET s == Strip(time_str) IN [i \in 1..Len(s) |-> IF s[i] = FullWidthColon THEN ":" ELSE s[i]]

\* The outcome of a parser: a ValueError, or the instant t.
ParseError == [ok |-> FALSE, t |-> 0]
Parsed(t) == [ok |-> TRUE, t |-> t]

\* time_utils.parse_death_time, with datetime.now(timezone) = at
parse_death_time(time_str, at) ==
    LET s == Normalize(time_str)
        m == MatchTime(s)
    IN  IF s = <<>> THEN Parsed(at)
        ELSE IF IsDigitStr(s)
        THEN (IF ToInt(s) >= 0 /\ ToInt(s) < 60 THEN Parsed(HourStart(at) + ToInt(s) * 60) ELSE ParseError)
        ELSE IF m.ok
        THEN (IF m.hour \in 0..23 /\ m.minute \in 0..59 /\ m.second \in 0..59
              THEN Parsed(DayStart(at) + TimeDelta(m.hour, m.minute, m.second))
              ELSE ParseError)
        ELSE ParseError

\* parse_spawn_time as it would be if a time equal to now were not rolled to tomorrow.
parse_spawn_time_keeping_now(time_str, at) ==
    LET s == Normalize(time_str)
        parts == SplitBlank(s)
        dm == MatchDate(parts[1])
        tm == MatchTime(parts[2])
        m == MatchTime(s)
        year == YearOf(at)
        today == DayStart(at) + TimeDelta(m.hour, m.minute, m.second)
    IN  IF Contains(s, " ")
        THEN IF Len(parts) # 2 THEN ParseError
             ELSE IF ~dm.ok \/ ~tm.ok THEN ParseError
             ELSE IF ~ValidDateTime(year, dm.month, dm.day, tm.hour, tm.minute, tm.second) THEN ParseError
             ELSE IF MkTime(year, dm.month, dm.day, tm.hour, tm.minute, tm.second) > at
                  THEN Parsed(MkTime(year, dm.month, dm.day, tm.hour, tm.minute, tm.second))
             ELSE IF ~ValidDateTime(year + 1, dm.month, dm.day, tm.hour, tm.minute, tm.second) THEN ParseError
             ELSE Parsed(MkTime(year + 1, dm.month, dm.day, tm.hour, tm.minute, tm.second))
        ELSE IF ~m.ok THEN ParseError
             ELSE IF ~(m.hour \in 0..23 /\ m.minute \in 0..59 /\ m.second \in 0..59) THEN ParseError
             ELSE IF today < at THEN Parsed(today + 86400)
             ELSE Parsed(today)

\* time_utils.parse_spawn_time, with datetime.now(timezone) = at
parse_spawn_time(time_str, at) ==
    LET s == Normalize(time_str)
        parts == SplitBlank(s)
        dm == MatchDate(parts[1])
        tm == MatchTime(parts[2])
        m == MatchTime(s)
        year == YearOf(at)
        today == DayStart(at) + TimeDelta(m.hour, m.minute, m.second)
    IN  IF Contains(s, " ")
        THEN IF Len(parts) # 2 THEN ParseError
             ELSE IF ~dm.ok \/ ~tm.ok THEN ParseError
             ELSE IF ~ValidDateTime(year, dm.month, dm.day, tm.hour, tm.minute, tm.second) THEN ParseError
             ELSE IF MkTime(year, dm.month, dm.day, tm.hour, tm.minute, tm.second) > at
                  THEN Parsed(MkTime(year, dm.month, dm.day, tm.hour, tm.minute, tm.second))
             ELSE IF ~ValidDateTime(year + 1, dm.month, dm.day, tm.hour, tm.minute, tm.second) THEN ParseError
             ELSE Parsed(MkTime(year + 1, dm.month, dm.day, tm.hour, tm.minute, tm.second))
        ELSE IF ~m.ok THEN ParseError
             ELSE IF ~(m.hour \in 0..23 /\ m.minute \in 0..59 /\ m.second \in 0..59) THEN ParseError
             ELSE IF today <= at THEN Parsed(today + 86400)
             ELSE Parsed(today)

\* datetime.isoformat(): the stored text of an instant.  A stored text is a
\* tuple; it parses (datetime.fromisoformat) iff it is the 1-tuple of an instant.
IsoFormat(t) == <<t>>

\* datetime.fromisoformat(s).replace(tzinfo=timezone) succeeds
IsoValid(s) == Len(s) = 1

\* datetime.fromisoformat(s).replace(tzinfo=timezone)
FromIso(s) == s[1]

\* ------------------------------------------------------------------ catalog

\* The entity catalog (bosses.json), in file order: key, aliases, respawn duration and
\* display_name (<<>> where the entry has none).
Bosses ==
    << [key |-> <<"w","d","k">>, aliases |-> << <<"W","D","K">>, <<"v","k">> >>,
        respawn_hours |-> 0, respawn_minutes |-> 1, respawn_seconds |-> 30,
        display_name |-> <<"W","o","l","f">>],
       [key |-> <<"u","k">>, aliases |-> << <<"v","k">> >>,
        respawn_hours |-> 0, respawn_minutes |-> 2, respawn_seconds |-> 30,
        display_name |-> <<>>] >>

\* The boss keys as identifiers.
Wdk == Ident(<<"w","d","k">>)
Uk == Ident(<<"u","k">>)
BossKeys == {Ident(Bosses[i].key) : i \in 1..Len(Bosses)}

\* bosses.get(boss_name, {})
BossData(boss_name) ==
    IF boss_name \in BossKeys
    THEN Bosses[CHOOSE i \in 1..Len(Bosses) : Ident(Bosses[i].key) = boss_name]
    ELSE [key |-> <<>>, aliases |-> <<>>, respawn_hours |-> 0, respawn_minutes |-> 0, respawn_seconds |-> 0,
          display_name |-> <<>>]

\* One catalog entry's keys of the alias map: the boss name, then its aliases, lower-cased.
EntryAliases(e) == {Lower(e.key)} \cup {Lower(e.aliases[i]) : i \in 1..Len(e.aliases)}

\* boss_config.build_alias_map: entries are folded in catalog order, so the last entry
\* that has a key wins.
AliasKeys == UNION {EntryAliases(Bosses[i]) : i \in 1..Len(Bosses)}
build_alias_map ==
    [k \in AliasKeys |->
        Ident(Bosses[CHOOSE i \in 1..Len(Bosses) :
                  /\ k \in EntryAliases(Bosses[i])
                  /\ \A j \in 1..Len(Bosses) : k \in EntryAliases(Bosses[j]) => j <= i].key)]

\* boss_config.get_boss_by_alias on self.boss_alias_map
get_boss_by_alias(alias) ==
    IF Lower(alias) \in AliasKeys THEN build_alias_map[Lower(alias)] ELSE None

\* calculate_spawn_time as it would be with the seconds of the respawn time left out.
calculate_spawn_time_without_seconds(boss_name, death_time) ==
    death_time + TimeDelta(BossData(boss_name).respawn_hours, BossData(boss_name).respawn_minutes, 0)

\* boss_config.calculate_spawn_time
calculate_spawn_time(boss_name, death_time) ==
    LET d == BossData(boss_name)
    IN  death_time + TimeDelta(d.respawn_hours, d.respawn_minutes, d.respawn_seconds)

\* ------------------------------------------------------------------ configuration

\* Group ids "1", "1_2", "2" and user ids "7", "8".
G1 == <<"1">>
G12 == <<"1", "2">>
G2 == <<"2">>
U7 == <<"7">>
U8 == <<"8">>

\* Plugin configurations the model runs under (one is fixed per behaviour).
Configs ==
    { [whitelist_enabled |-> TRUE,
       whitelist_groups |-> {G1, G12}, core_groups |-> {},
       whitelist_groups_2 |-> {}, core_groups_2 |-> {},
       whitelist_users |-> {U7, U8},
       group_boss_filter_enabled |-> FALSE, filters_valid |-> TRUE, group_boss_filters |-> {},
       reminder_intervals |-> <<"2", ",", "1">>],
      [whitelist_enabled |-> TRUE,
       whitelist_groups |-> {G12}, core_groups |-> {G1},
       whitelist_groups_2 |-> {}, core_groups_2 |-> {G2},
       whitelist_users |-> {U7},
       group_boss_filter_enabled |-> TRUE, filters_valid |-> TRUE,
       group_boss_filters |-> {<<G12, {Wdk}>>, <<G2, {}>>},
       reminder_intervals |-> <<"1", ",", " ", "1">>],
      [whitelist_enabled |-> FALSE,
       whitelist_groups |-> {}, core_groups |-> {G1},
       whitelist_groups_2 |-> {}, core_groups_2 |-> {},
       whitelist_users |-> {},
       group_boss_filter_enabled |-> TRUE, filters_valid |-> FALSE, group_boss_filters |-> {},
       reminder_intervals |-> <<"x">>] }

\* ------------------------------------------------------------------ permission gate

\* permission.get_group_set: 1, 2, or 0 for None
get_group_set(group_id, cfg) ==
    IF group_id \in cfg.whitelist_groups \/ group_id \in cfg.core_groups THEN 1
    ELSE IF group_id \in cfg.whitelist_groups_2 \/ group_id \in cfg.core_groups_2 THEN 2
    ELSE 0

\* permission.is_group_enabled
is_group_enabled(group_id, cfg) ==
    IF ~cfg.whitelist_enabled THEN TRUE ELSE get_group_set(group_id, cfg) # 0

\* is_user_enabled as it would be if an empty user whitelist meant "no restriction".
is_user_enabled_open_when_empty(user_id, cfg) ==
    IF cfg.whitelist_users = {} THEN TRUE ELSE user_id \in cfg.whitelist_users

\* permission.is_user_enabled
is_user_enabled(user_id, cfg) ==
    IF cfg.whitelist_users = {} THEN FALSE ELSE user_id \in cfg.whitelist_users

\* permission.is_core_group
is_core_group(group_id, cfg) == group_id \in cfg.core_groups \/ group_id \in cfg.core_groups_2

\* permission.get_allowed_bosses_for_group: [some |-> FALSE] is None (no filtering)
NoFilter == [some |-> FALSE, bosses |-> {}]
\* get_allowed_bosses_for_group as it would be if the configured filters were ignored.
get_allowed_bosses_for_group_unfiltered(group_id, cfg) == NoFilter

get_allowed_bosses_for_group(group_id, cfg) ==
    IF ~cfg.group_boss_filter_enabled THEN NoFilter
    ELSE IF ~cfg.filters_valid THEN NoFilter
    ELSE LET hit == {p \in cfg.group_boss_filters : p[1] = group_id}
         IN  IF hit = {} THEN NoFilter
             ELSE IF (CHOOSE p \in hit : TRUE)[2] = {} THEN NoFilter
             ELSE [some |-> TRUE, bosses |-> (CHOOSE p \in hit : TRUE)[2]]

\* should_show_timer as it would be if a private viewer were shown every private timer.
should_show_timer_any_private(timer_id, timer_data, viewer_group_id, viewer_user_id, cfg) ==
    IF viewer_group_id = None
    THEN HasPrefix(timer_id, <<"private">>)
    ELSE IF HasPrefix(timer_id, <<"private">>) THEN FALSE
    ELSE IF get_group_set(viewer_group_id, cfg) # get_group_set(timer_data.group_id, cfg) THEN FALSE
    ELSE IF is_core_group(viewer_group_id, cfg) THEN TRUE
    ELSE HasPrefix(timer_id, viewer_group_id)

\* should_show_timer as it would be if the core-group test came before the set test.
should_show_timer_core_first(timer_id, timer_data, viewer_group_id, viewer_user_id, cfg) ==
    IF viewer_group_id = None
    THEN HasPrefix(timer_id, <<"private">> \o viewer_user_id)
    ELSE IF HasPrefix(timer_id, <<"private">>) THEN FALSE
    ELSE IF is_core_group(viewer_group_id, cfg) THEN TRUE
    ELSE IF get_group_set(viewer_group_id, cfg) # get_group_set(timer_data.group_id, cfg) THEN FALSE
    ELSE HasPrefix(timer_id, viewer_group_id)

\* permission.should_show_timer
should_show_timer(timer_id, timer_data, viewer_group_id, viewer_user_id, cfg) ==
    IF viewer_group_id = None
    THEN HasPrefix(timer_id, <<"private">> \o viewer_user_id)
    ELSE IF HasPrefix(timer_id, <<"private">>) THEN FALSE
    ELSE LET timer_group_id == IF timer_data.group_id # None THEN timer_data.group_id
                               ELSE SubSeq(timer_id, 1, 1)
             viewer_set == get_group_set(viewer_group_id, cfg)
             timer_set == IF timer_group_id # None THEN get_group_set(timer_group_id, cfg) ELSE 0
         IN  IF viewer_set # timer_set THEN FALSE
             ELSE IF is_core_group(viewer_group_id, cfg) THEN TRUE
             ELSE HasPrefix(timer_id, viewer_group_id)

\* ------------------------------------------------------------------ scheduler

\* The lead used when reminder_intervals does not parse (scheduler.py: return [3]).
DefaultInterval == 3

\* scheduler.get_reminder_intervals: [int(x.strip()) for x in s.split(",")], or [3]
get_reminder_intervals(cfg) ==
    LET toks == SplitOn(cfg.reminder_intervals, ",")
    IN  IF \A i \in 1..Len(toks) : IsDigitStr(Strip(toks[i]))
        THEN [i \in 1..Len(toks) |-> ToInt(Strip(toks[i]))]
        ELSE <<DefaultInterval>>

\* The intervals of each configuration.
Intervals == [cfg \in Configs |-> get_reminder_intervals(cfg)]

\* The id of the job of timer_id at the lead `minutes`: f"{timer_id}_remind_{minutes}min"
JobId(timer_id, minutes) == timer_id \o <<"remind", Join(ToStr(minutes)) \o "min">>

\* A dict assignment that would keep the value of an existing key.
Put_keeping_old(f, k, v) == [x \in DOMAIN f \cup {k} |-> IF x \in DOMAIN f THEN f[x] ELSE v]

\* f[k] := v (dict assignment; an existing key is replaced)
Put(f, k, v) == [x \in DOMAIN f \cup {k} |-> IF x = k THEN v ELSE f[x]]

\* The dict f without the keys in ks
Without(f, ks) == [x \in DOMAIN f \ ks |-> f[x]]

RECURSIVE schedule_reminders_at_boundary(_, _, _, _, _, _, _)
\* schedule_reminders as it would be if a reminder whose time is the present instant
\* were still scheduled (remind_time < now skipped instead of remind_time <= now).
schedule_reminders_at_boundary(js, timer_id, boss_name, spawn_time, umo, intervals, at) ==
    IF intervals = <<>> THEN js
    ELSE IF spawn_time - Head(intervals) * 60 < at
         THEN schedule_reminders_at_boundary(js, timer_id, boss_name, spawn_time, umo, Tail(intervals), at)
         ELSE schedule_reminders_at_boundary(
                  Put(js, JobId(timer_id, Head(intervals)),
                      [run_date |-> spawn_time - Head(intervals) * 60, boss |-> boss_name,
                       spawn_time |-> spawn_time, umo |-> umo, minutes |-> Head(intervals),
                       timer_id |-> timer_id]),
                  timer_id, boss_name, spawn_time, umo, Tail(intervals), at)

RECURSIVE schedule_reminders_catching_up(_, _, _, _, _, _, _)
\* schedule_reminders as it would be if a reminder whose time has passed were
\* scheduled for the present instant instead of being skipped.
schedule_reminders_catching_up(js, timer_id, boss_name, spawn_time, umo, intervals, at) ==
    IF intervals = <<>> THEN js
    ELSE schedule_reminders_catching_up(
             Put(js, JobId(timer_id, Head(intervals)),
                 [run_date |-> IF spawn_time - Head(intervals) * 60 <= at THEN at
                               ELSE spawn_time - Head(intervals) * 60,
                  boss |-> boss_name, spawn_time |-> spawn_time, umo |-> umo,
                  minutes |-> Head(intervals), timer_id |-> timer_id]),
             timer_id, boss_name, spawn_time, umo, Tail(intervals), at)

RECURSIVE schedule_reminders_without_run_date(_, _, _, _, _, _, _)
\* schedule_reminders as it would be if add_job were given no run_date: the "date"
\* trigger then runs the job at once.
schedule_reminders_without_run_date(js, timer_id, boss_name, spawn_time, umo, intervals, at) ==
    IF intervals = <<>> THEN js
    ELSE IF spawn_time - Head(intervals) * 60 <= at
         THEN schedule_reminders_without_run_date(js, timer_id, boss_name, spawn_time, umo,
                                                  Tail(intervals), at)
         ELSE schedule_reminders_without_run_date(
                  Put(js, JobId(timer_id, Head(intervals)),
                      [run_date |-> at, boss |-> boss_name, spawn_time |-> spawn_time,
                       umo |-> umo, minutes |-> Head(intervals), timer_id |-> timer_id]),
                  timer_id, boss_name, spawn_time, umo, Tail(intervals), at)

RECURSIVE schedule_reminders_shortest_lead_first(_, _, _, _, _, _, _)
\* schedule_reminders as it would be if the reminder of lead m ran (3 - m) minutes before
\* the spawn, the shorter lead first.
schedule_reminders_shortest_lead_first(js, timer_id, boss_name, spawn_time, umo, intervals, at) ==
    IF intervals = <<>> THEN js
    ELSE LET minutes == Head(intervals)
             remind_time == spawn_time - (3 - minutes) * 60
             job == [run_date |-> remind_time, boss |-> boss_name, spawn_time |-> spawn_time,
                     umo |-> umo, minutes |-> minutes, timer_id |-> timer_id]
         IN  IF remind_time <= at
             THEN schedule_reminders_shortest_lead_first(js, timer_id, boss_name, spawn_time, umo,
                                                         Tail(intervals), at)
             ELSE schedule_reminders_shortest_lead_first(
                      Put(js, JobId(timer_id, minutes), job),
                      timer_id, boss_name, spawn_time, umo, Tail(intervals), at)

RECURSIVE schedule_reminders_position_ids(_, _, _, _, _, _, _)
\* schedule_reminders as it would be with job ids that also carry the place of the lead
\* in the interval list.
schedule_reminders_position_ids(js, timer_id, boss_name, spawn_time, umo, intervals, at) ==
    IF intervals = <<>> THEN js
    ELSE LET minutes == Head(intervals)
             remind_time == spawn_time - minutes * 60
             job == [run_date |-> remind_time, boss |-> boss_name, spawn_time |-> spawn_time,
                     umo |-> umo, minutes |-> minutes, timer_id |-> timer_id]
         IN  IF remind_time <= at
             THEN schedule_reminders_position_ids(js, timer_id, boss_name, spawn_time, umo,
                                                  Tail(intervals), at)
             ELSE schedule_reminders_position_ids(
                      Put(js, JobId(timer_id, minutes) \o <<Join(ToStr(Len(intervals)))>>, job),
                      timer_id, boss_name, spawn_time, umo, Tail(intervals), at)

RECURSIVE schedule_reminders(_, _, _, _, _, _, _)
\* scheduler.schedule_reminders: the job set after the loop over intervals
schedule_reminders(js, timer_id, boss_name, spawn_time, umo, intervals, at) ==
    IF intervals = <<>> THEN js
    ELSE LET minutes == Head(intervals)
             remind_time == spawn_time - minutes * 60
             job == [run_date |-> remind_time, boss |-> boss_name, spawn_time |-> spawn_time,
                     umo |-> umo, minutes |-> minutes, timer_id |-> timer_id]
         IN  IF remind_time <= at
             THEN schedule_reminders(js, timer_id, boss_name, spawn_time, umo, Tail(intervals), at)
             ELSE schedule_reminders(Put(js, JobId(timer_id, minutes), job), timer_id, boss_name,
                                     spawn_time, umo, Tail(intervals), at)

\* scheduler.schedule_reminders: the count it returns, one for every add_job call
scheduled_count(spawn_time, intervals, at) ==
    Cardinality({i \in 1..Len(intervals) : spawn_time - intervals[i] * 60 > at})

\* cancel_reminder_jobs as it would be with the job id prefix "reminder_{timer_id}_".
cancel_reminder_jobs_other_prefix(js, timer_id) ==
    [j \in DOMAIN js \ {k \in DOMAIN js : HasPrefix(k, <<"reminder">> \o timer_id)} |-> js[j]]

\* scheduler.cancel_reminder_jobs: the job set without the jobs it removes
cancel_reminder_jobs(js, timer_id) ==
    Without(js, {j \in DOMAIN js : HasPrefix(j, timer_id \o <<"remind">>)})

\* scheduler.cancel_reminder_jobs: the count it returns, one for every job removed
cancelled_count(js, timer_id) ==
    Cardinality({j \in DOMAIN js : HasPrefix(j, timer_id \o <<"remind">>)})

\* scheduler.cleanup_expired_timers: the ids it removes
ExpiredIds(ts, at) ==
    {id \in DOMAIN ts :
        \/ ts[id].spawn_time = None
        \/ ~IsoValid(ts[id].spawn_time)
        \/ FromIso(ts[id].spawn_time) < at}

cleanup_expired_timers(ts, at) == Without(ts, ExpiredIds(ts, at))

\* ------------------------------------------------------------------ bounds and inputs

\* The clock advances at most MaxTicks times; the store holds at most MaxTimers timers.
MaxTicks == 2
MaxTimers == 2

\* The instant construction happens at: 2024-01-10 10:00:00.
StartTime == MkTime(2024, 1, 10, 10, 0, 0)

\* The instants the clock takes: it advances by half a minute at a time.
ClockValues == {StartTime + 30 * i : i \in 0..MaxTicks}

\* An incoming message event: get_group_id() ("" in private chat) and unified_msg_origin.
GroupEvent(g) == [group_id |-> g, umo |-> <<"qq", "group">> \o g]
PrivateEvent(u) == [group_id |-> None, umo |-> <<"qq", "private">> \o u]
Events == {GroupEvent(G1), GroupEvent(G12), GroupEvent(G2), PrivateEvent(U7), PrivateEvent(U8)}

\* Texts typed as a boss name.
In_Wdk == <<"W","d","k">>
In_uk == <<"u","k">>
In_zz == <<"z","z">>
AliasInputs == {In_Wdk, In_uk, In_zz}

\* Death reports after the regular expressions of handle_boss_death: `name` is group 1,
\* `spaced` tells which of the two patterns matched, time_part is group 2 (None if absent).
DeathMsg(name, spaced, time_part) == [name |-> name, spaced |-> spaced, time_part |-> time_part]
DeathMessages ==
    { DeathMsg(In_Wdk, TRUE, None), DeathMsg(In_uk, FALSE, None),
      DeathMsg(In_Wdk, TRUE, <<"9",":","5","9">>),
      DeathMsg(In_zz, TRUE, None), DeathMsg(In_Wdk, TRUE, <<"6","0">>) }

\* The arguments of /boss set: the boss name and the spawn time text.
SetArgs ==
    { <<In_Wdk, <<"1","0",":","0","1">> >>,
      <<In_uk, <<"0","1","-","1","0"," ","1","0",":","0","1",":","3","0">> >>,
      <<In_zz, <<"1","0",":","0","2">> >>,
      <<In_uk, <<"2","5",":","0","0">> >>,
      <<In_Wdk, None>> }

\* parse_death_time and parse_spawn_time of the texts above at each instant of the clock.
DeathTimeAt == [m \in DeathMessages, t \in ClockValues |-> parse_death_time(m.time_part, t)]
SpawnTimeAt == [a \in SetArgs, t \in ClockValues |-> parse_spawn_time(a[2], t)]

\* ------------------------------------------------------------------ state

VARIABLES
    now,      \* datetime.now(self.timezone)
    config,   \* self.config
    timers,   \* self.timers: timer_id -> timer_data
    saved,    \* timers.json as last written
    jobs,     \* the pending jobs of self.scheduler: job id -> job
    last      \* the handler that ran last, its arguments and its outcome

vars == <<now, config, timers, saved, jobs, last>>

\* BossTimer._get_user_id
get_user_id(unified_msg_origin) ==
    IF HasUnderscore(unified_msg_origin) THEN <<unified_msg_origin[Len(unified_msg_origin)]>>
    ELSE unified_msg_origin

\* The timer_id of handle_boss_death and cmd_set_boss_timer.
TimerId(group_id, user_id, boss_name) ==
    IF group_id # None THEN group_id \o boss_name
    ELSE <<"private">> \o user_id \o boss_name

\* The record of what a handler did.
Idle == [op |-> "idle", group_id |-> None, user_id |-> None, tid |-> None, outcome |-> "ok",
         spawn |-> 0, result |-> {}, n |-> 0, replaced |-> <<>>]

Did(op, ev, tid, outcome, spawn, result) ==
    [op |-> op, group_id |-> ev.group_id,
     user_id |-> IF ev.group_id # None THEN None ELSE get_user_id(ev.umo),
     tid |-> tid, outcome |-> outcome, spawn |-> spawn, result |-> result,
     n |-> 0, replaced |-> <<>>]

NoEvent == [group_id |-> None, umo |-> None]

RECURSIVE RestoreJobs(_, _, _, _, _)
\* The loop of BossTimer._restore_timers over the timers `ids` of ts.
RestoreJobs(js, ts, ids, intervals, t) ==
    IF ids = {} THEN js
    ELSE LET id == CHOOSE x \in ids : TRUE
             td == ts[id]
         IN  IF td.spawn_time = None \/ ~IsoValid(td.spawn_time)
             THEN RestoreJobs(js, ts, ids \ {id}, intervals, t)
             ELSE RestoreJobs(schedule_reminders(js, id, td.boss, FromIso(td.spawn_time), td.umo, intervals, t),
                              ts, ids \ {id}, intervals, t)

\* A timer_data as the handlers write it (created_at is written and never read: left out).
TimerData(boss, death_time, spawn_time, umo, group_id, user_id) ==
    [boss |-> boss, death_time |-> death_time, spawn_time |-> spawn_time,
     umo |-> umo, group_id |-> group_id, user_id |-> user_id]

\* What a write of timers.json can do: "ok" writes the whole file; "refused" fails in
\* open() and leaves the file as it was; "torn" fails in json.dump after open(.., "w")
\* has truncated the file, which leaves a part of the new text.
WriteOutcomes == {"ok", "refused", "torn"}

\* A timers.json that is not a complete JSON text.
Torn == Put(<<>>, <<"torn">>, TimerData(None, None, None, None, None, None))

\* A save_timers that leaves timers.json as it is.
save_timers_not_writing(file, ts, w) == [file |-> file, raised |-> FALSE]

\* timer_storage.save_timers without its try/except: a failed write raises.
save_timers_raising(file, ts, w) ==
    [file |-> IF w = "ok" THEN ts ELSE IF w = "torn" THEN Torn ELSE file,
     raised |-> w # "ok"]

\* timer_storage.save_timers: the file afterwards, and whether an exception reaches
\* the caller (every Exception of the write is caught and logged).
save_timers(file, ts, w) ==
    [file |-> IF w = "ok" THEN ts ELSE IF w = "torn" THEN Torn ELSE file,
     raised |-> FALSE]

\* timer_storage.load_timers: a file that does not parse is loaded as {}.
load_timers(file) == IF file = Torn THEN <<>> ELSE file

\* BossTimer._restore_timers on the loaded store ts with an empty scheduler, its write
\* (if it writes) doing w: the store, the file and the jobs afterwards. The write comes
\* before the scheduling loop.
restore_timers_writing(ts, file, cfg, t, w) ==
    LET kept == cleanup_expired_timers(ts, t)
        written == IF Cardinality(ExpiredIds(ts, t)) > 0 THEN save_timers(file, kept, w)
                   ELSE [file |-> file, raised |-> FALSE]
    IN  [timers |-> kept,
         saved |-> written.file,
         raised |-> written.raised,
         jobs |-> IF written.raised THEN <<>>
                  ELSE RestoreJobs(<<>>, kept, DOMAIN kept, Intervals[cfg], t)]

\* BossTimer._restore_timers when the write succeeds.
restore_timers(ts, file, cfg, t) == restore_timers_writing(ts, file, cfg, t, "ok")

\* timers.json files found at construction: none, and one holding a timer without
\* spawn_time and a timer whose spawn_time does not parse.
Snapshots ==
    { <<>>,
      Put(Put(<<>>,
          TimerId(G2, None, Uk),
          TimerData(Uk, None, None, GroupEvent(G2).umo, G2, None)),
          TimerId(None, U7, Wdk),
          TimerData(Wdk, None, <<0, 0>>, PrivateEvent(U7).umo, None, U7)) }

\* BossTimer.__init__: load_timers, then _restore_timers.
Init ==
    \E cfg \in Configs, snap \in Snapshots :
        LET r == restore_timers(snap, snap, cfg, StartTime)
        IN  /\ now = StartTime
            /\ config = cfg
            /\ timers = r.timers
            /\ saved = r.saved
            /\ jobs = r.jobs
            /\ last = Did("restore", NoEvent, None, "ok", 0, ExpiredIds(snap, StartTime))

\* ------------------------------------------------------------------ handlers

\* handle_boss_death, lines 143-163: the boss a death report names (None if unknown).
ResolveDeathBoss(msg) ==
    IF msg.spaced THEN get_boss_by_alias(Lower(msg.name))
    ELSE IF get_boss_by_alias(Lower(msg.name) \o <<"d">>) # None
         THEN get_boss_by_alias(Lower(msg.name) \o <<"d">>)
    ELSE get_boss_by_alias(Lower(msg.name))

\* The jobs handle_boss_death removes before it overwrites timer_id (lines 227-231).
DeathStaleJobs(js, timer_id) ==
    {j \in DOMAIN js : HasPrefix(j, <<"reminder">> \o timer_id)}

\* BossTimer.handle_boss_death, its write of timers.json doing w.
handle_boss_death(ev, msg, w) ==
    /\ last = Idle
    /\ LET boss_name == ResolveDeathBoss(msg)
           death == DeathTimeAt[msg, now]
           group_id == ev.group_id
           user_id == get_user_id(ev.umo)
           allowed == get_allowed_bosses_for_group(group_id, config)
           outcome ==
               IF boss_name = None THEN "unknown_entity"
               ELSE IF ~death.ok THEN "invalid_time"
               ELSE IF group_id # None /\ ~is_group_enabled(group_id, config) THEN "scope_disabled"
               ELSE IF group_id = None /\ ~is_user_enabled(user_id, config) THEN "scope_disabled"
               ELSE IF group_id # None /\ allowed.some /\ allowed.bosses # {} /\ boss_name \notin allowed.bosses
                    THEN "entity_filtered"
               ELSE "ok"
           spawn_time == calculate_spawn_time(boss_name, death.t)
           timer_id == TimerId(group_id, user_id, boss_name)
           kept == IF timer_id \in DOMAIN timers THEN Without(jobs, DeathStaleJobs(jobs, timer_id)) ELSE jobs
           data == TimerData(boss_name, IsoFormat(death.t), IsoFormat(spawn_time), ev.umo, group_id,
                             IF group_id # None THEN None ELSE user_id)
           written == save_timers(saved, Put(timers, timer_id, data), w)
       IN  IF outcome # "ok"
           THEN /\ last' = Did("record_death", NoEvent, None, outcome, 0, {})
                /\ UNCHANGED <<now, config, timers, saved, jobs>>
           ELSE /\ timer_id \in DOMAIN timers \/ Cardinality(DOMAIN timers) < MaxTimers
                /\ timers' = Put(timers, timer_id, data)
                /\ saved' = written.file
                /\ jobs' = IF written.raised THEN kept
                           ELSE schedule_reminders(kept, timer_id, boss_name, spawn_time, ev.umo,
                                                   Intervals[config], now)
                /\ last' = [Did("record_death", ev, timer_id,
                                IF written.raised THEN "error" ELSE "ok", spawn_time, {timer_id})
                               EXCEPT !.replaced = IF timer_id \in DOMAIN timers
                                                   THEN <<timers[timer_id]>> ELSE <<>>]
                /\ UNCHANGED <<now, config>>

\* BossTimer.handle_boss_death when the write succeeds.
RecordDeath(ev, msg) == handle_boss_death(ev, msg, "ok")

\* cmd_set_boss_timer as it would be if the old timer of the key were cancelled and
\* deleted before the spawn time is parsed.
AddManual_delete_before_parse(ev, args) ==
    /\ last = Idle
    /\ LET boss_input == args[1]
           spawn_time_str == args[2]
           group_id == ev.group_id
           user_id == get_user_id(ev.umo)
           boss_name == get_boss_by_alias(Lower(boss_input))
           allowed == get_allowed_bosses_for_group(group_id, config)
           parsed == SpawnTimeAt[args, now]
           outcome ==
               IF boss_input = None \/ spawn_time_str = None THEN "usage"
               ELSE IF group_id # None /\ ~is_group_enabled(group_id, config) THEN "scope_disabled"
               ELSE IF group_id = None /\ ~is_user_enabled(user_id, config) THEN "scope_disabled"
               ELSE IF boss_name = None THEN "unknown_entity"
               ELSE IF group_id # None /\ allowed.some /\ boss_name \notin allowed.bosses THEN "entity_filtered"
               ELSE IF ~parsed.ok THEN "invalid_time"
               ELSE IF parsed.t <= now THEN "not_future"
               ELSE "ok"
           timer_id == TimerId(group_id, user_id, boss_name)
           umo == IF group_id # None THEN <<"qq", "group">> \o group_id ELSE ev.umo
           kept == IF timer_id \in DOMAIN timers THEN cancel_reminder_jobs(jobs, timer_id) ELSE jobs
           data == TimerData(boss_name, None, IsoFormat(parsed.t), umo, group_id,
                             IF group_id # None THEN None ELSE user_id)
       IN  IF outcome \in {"invalid_time", "not_future"}
           THEN /\ timers' = Without(timers, {timer_id})
                /\ jobs' = kept
                /\ last' = Did("add_manual", NoEvent, None, outcome, 0, {})
                /\ UNCHANGED <<now, config, saved>>
           ELSE IF outcome # "ok"
           THEN /\ last' = Did("add_manual", NoEvent, None, outcome, 0, {})
                /\ UNCHANGED <<now, config, timers, saved, jobs>>
           ELSE /\ timer_id \in DOMAIN timers \/ Cardinality(DOMAIN timers) < MaxTimers
                /\ timers' = Put(Without(timers, {timer_id}), timer_id, data)
                /\ jobs' = schedule_reminders(kept, timer_id, boss_name, parsed.t, umo,
                                              Intervals[config], now)
                /\ saved' = timers'
                /\ last' = [Did("add_manual", ev, timer_id, "ok", parsed.t, {timer_id})
                               EXCEPT !.replaced = IF timer_id \in DOMAIN timers
                                                   THEN <<timers[timer_id]>> ELSE <<>>]
                /\ UNCHANGED <<now, config>>

\* BossTimer.cmd_set_boss_timer, its write of timers.json doing w.
cmd_set_boss_timer(ev, args, w) ==
    /\ last = Idle
    /\ LET boss_input == args[1]
           spawn_time_str == args[2]
           group_id == ev.group_id
           user_id == get_user_id(ev.umo)
           boss_name == get_boss_by_alias(Lower(boss_input))
           allowed == get_allowed_bosses_for_group(group_id, config)
           parsed == SpawnTimeAt[args, now]
           outcome ==
               IF boss_input = None \/ spawn_time_str = None THEN "usage"
               ELSE IF group_id # None /\ ~is_group_enabled(group_id, config) THEN "scope_disabled"
               ELSE IF group_id = None /\ ~is_user_enabled(user_id, config) THEN "scope_disabled"
               ELSE IF boss_name = None THEN "unknown_entity"
               ELSE IF group_id # None /\ allowed.some /\ boss_name \notin allowed.bosses THEN "entity_filtered"
               ELSE IF ~parsed.ok THEN "invalid_time"
               ELSE IF parsed.t <= now THEN "not_future"
               ELSE "ok"
           timer_id == TimerId(group_id, user_id, boss_name)
           umo == IF group_id # None THEN <<"qq", "group">> \o group_id ELSE ev.umo
           kept == IF timer_id \in DOMAIN timers THEN cancel_reminder_jobs(jobs, timer_id) ELSE jobs
           data == TimerData(boss_name, None, IsoFormat(parsed.t), umo, group_id,
                             IF group_id # None THEN None ELSE user_id)
           written == save_timers(saved, Put(Without(timers, {timer_id}), timer_id, data), w)
       IN  IF outcome # "ok"
           THEN /\ last' = Did("add_manual", NoEvent, None, outcome, 0, {})
                /\ UNCHANGED <<now, config, timers, saved, jobs>>
           ELSE /\ timer_id \in DOMAIN timers \/ Cardinality(DOMAIN timers) < MaxTimers
                /\ timers' = Put(Without(timers, {timer_id}), timer_id, data)
                /\ jobs' = schedule_reminders(kept, timer_id, boss_name, parsed.t, umo,
                                              Intervals[config], now)
                /\ saved' = written.file
                /\ last' = [Did("add_manual", ev, timer_id,
                                IF written.raised THEN "error" ELSE "ok", parsed.t, {timer_id})
                               EXCEPT !.replaced = IF timer_id \in DOMAIN timers
                                                   THEN <<timers[timer_id]>> ELSE <<>>]
                /\ UNCHANGED <<now, config>>

\* BossTimer.cmd_set_boss_timer when the write succeeds.
AddManual(ev, args) == cmd_set_boss_timer(ev, args, "ok")

\* The timers cancel_timer removes: same boss, same group (or same private user).
CancelMatches(ts, group_id, current_user_id, boss_name) ==
    {id \in DOMAIN ts :
        /\ ts[id].boss = boss_name
        /\ IF group_id # None THEN ts[id].group_id = group_id ELSE ts[id].user_id = current_user_id}

\* A cancel that leaves the jobs of the timers it removes.
CancelJobsOf_keeping_jobs(js, ids) == js

RECURSIVE CancelJobsOf(_, _)
\* cancel_reminder_jobs for each timer id of ids
CancelJobsOf(js, ids) ==
    IF ids = {} THEN js
    ELSE LET id == CHOOSE x \in ids : TRUE IN CancelJobsOf(cancel_reminder_jobs(js, id), ids \ {id})

\* BossTimer.cancel_timer, its write of timers.json doing w.
cancel_timer(ev, boss_input, w) ==
    /\ last = Idle
    /\ LET boss_name == get_boss_by_alias(Lower(boss_input))
           group_id == ev.group_id
           current_user_id == IF group_id # None THEN None ELSE get_user_id(ev.umo)
           removed == CancelMatches(timers, group_id, current_user_id, boss_name)
           written == save_timers(saved, Without(timers, removed), w)
       IN  IF boss_name = None
           THEN /\ last' = Did("cancel", NoEvent, None, "unknown_entity", 0, {})
                /\ UNCHANGED <<now, config, timers, saved, jobs>>
           ELSE IF removed = {}
           THEN /\ last' = Did("cancel", NoEvent, None, "not_found", 0, {})
                /\ UNCHANGED <<now, config, timers, saved, jobs>>
           ELSE /\ timers' = Without(timers, removed)
                /\ jobs' = CancelJobsOf(jobs, removed)
                /\ saved' = written.file
                /\ last' = [Did("cancel", ev, TimerId(group_id, current_user_id, boss_name),
                                IF written.raised THEN "error" ELSE "ok", 0, removed)
                               EXCEPT !.n = Cardinality(DOMAIN jobs) - Cardinality(DOMAIN jobs')]
                /\ UNCHANGED <<now, config>>

\* BossTimer.cancel_timer when the write succeeds.
Cancel(ev, boss_input) == cancel_timer(ev, boss_input, "ok")

\* BossTimer.list_timers, one pass of the loop: is timer_id collected into visible_timers?
ListKeeps(timer_id, timer_data, group_id, viewer_user_id, cfg, t) ==
    IF timer_data.spawn_time = None THEN FALSE
    ELSE IF ~IsoValid(timer_data.spawn_time) THEN FALSE
    ELSE IF FromIso(timer_data.spawn_time) <= t THEN FALSE
    ELSE IF ~should_show_timer(timer_id, timer_data, group_id, viewer_user_id, cfg) THEN FALSE
    ELSE IF group_id # None
            /\ get_allowed_bosses_for_group(group_id, cfg).some
            /\ timer_data.boss \notin get_allowed_bosses_for_group(group_id, cfg).bosses THEN FALSE
    ELSE TRUE

\* BossTimer.list_timers: the ids of visible_timers
list_timers(ts, ev, cfg, t) ==
    LET group_id == ev.group_id
        viewer_user_id == IF group_id # None THEN None ELSE get_user_id(ev.umo)
    IN  {id \in DOMAIN ts : ListKeeps(id, ts[id], group_id, viewer_user_id, cfg, t)}

List(ev) ==
    /\ last = Idle
    /\ last' = Did("list", ev, None, "ok", 0, list_timers(timers, ev, config, now))
    /\ UNCHANGED <<now, config, timers, saved, jobs>>

\* A reset that checks neither the administrator right nor the permission gate.
Reset_unguarded(ev, is_admin) ==
    /\ last = Idle
    /\ timers' = <<>>
    /\ jobs' = <<>>
    /\ saved' = timers'
    /\ last' = [Did("reset", ev, None, "ok", 0, DOMAIN timers)
                   EXCEPT !.n = Cardinality(DOMAIN jobs)]
    /\ UNCHANGED <<now, config>>

\* A reset that clears only the timers and jobs of the caller's own scope.
Reset_own_scope(ev, is_admin) ==
    /\ last = Idle
    /\ LET group_id == ev.group_id
           user_id == get_user_id(ev.umo)
           own == {id \in DOMAIN timers :
                     IF group_id # None THEN timers[id].group_id = group_id
                     ELSE timers[id].group_id = None /\ timers[id].user_id = user_id}
           gone == {j \in DOMAIN jobs : jobs[j].timer_id \in own}
       IN  /\ (group_id # None => is_admin /\ is_group_enabled(group_id, config))
           /\ (group_id = None => is_user_enabled(user_id, config))
           /\ timers' = Without(timers, own)
           /\ jobs' = Without(jobs, gone)
           /\ saved' = timers'
           /\ last' = [Did("reset", ev, None, "ok", 0, own) EXCEPT !.n = Cardinality(gone)]
           /\ UNCHANGED <<now, config>>

\* A reset that is suspended after it has removed the jobs and before it clears the
\* store, so that others see the store still full.
Reset_suspended_before_clear(ev, is_admin) ==
    /\ last = Idle
    /\ (ev.group_id # None => is_admin /\ is_group_enabled(ev.group_id, config))
    /\ (ev.group_id = None => is_user_enabled(get_user_id(ev.umo), config))
    /\ jobs' = <<>>
    /\ last' = [Did("reset", ev, None, "ok", 0, DOMAIN timers)
                   EXCEPT !.n = Cardinality(DOMAIN jobs)]
    /\ UNCHANGED <<now, config, timers, saved>>

\* BossTimer.reset_timers, its write of timers.json doing w.
reset_timers(ev, is_admin, w) ==
    /\ last = Idle
    /\ LET group_id == ev.group_id
           user_id == get_user_id(ev.umo)
           outcome ==
               IF group_id # None /\ ~is_admin THEN "not_admin"
               ELSE IF group_id # None /\ ~is_group_enabled(group_id, config) THEN "scope_disabled"
               ELSE IF group_id = None /\ ~is_user_enabled(user_id, config) THEN "scope_disabled"
               ELSE "ok"
           written == save_timers(saved, <<>>, w)
       IN  IF outcome # "ok"
           THEN /\ last' = Did("reset", NoEvent, None, outcome, 0, {})
                /\ UNCHANGED <<now, config, timers, saved, jobs>>
           ELSE /\ timers' = <<>>
                /\ jobs' = <<>>
                /\ saved' = written.file
                /\ last' = [Did("reset", ev, None, IF written.raised THEN "error" ELSE "ok",
                                0, DOMAIN timers)
                               EXCEPT !.n = Cardinality(DOMAIN jobs)]
                /\ UNCHANGED <<now, config>>

\* BossTimer.reset_timers when the write succeeds.
Reset(ev, is_admin) == reset_timers(ev, is_admin, "ok")

\* A due job runs the callback and stays pending (as a job of an "interval" trigger
\* would, instead of the "date" trigger).
Fire_keeping_job(j) ==
    /\ last = Idle
    /\ j \in DOMAIN jobs
    /\ jobs[j].run_date <= now
    /\ last' = [op |-> "fire", group_id |-> None, user_id |-> None, tid |-> jobs[j].timer_id,
                outcome |-> "ok", spawn |-> jobs[j].spawn_time, result |-> {j},
                n |-> jobs[j].minutes, replaced |-> <<>>]
    /\ UNCHANGED <<now, config, timers, saved, jobs>>

\* A reminder callback whose failed send reaches the scheduler and stops it: the other
\* pending jobs are lost.
send_reminder_stopping_scheduler(j, send) ==
    /\ last = Idle
    /\ j \in DOMAIN jobs
    /\ jobs[j].run_date <= now
    /\ jobs' = IF send = "failed" THEN <<>> ELSE Without(jobs, {j})
    /\ last' = [op |-> "fire", group_id |-> None, user_id |-> None, tid |-> jobs[j].timer_id,
                outcome |-> IF send = "failed" THEN "error" ELSE IF send = "slow" THEN "send_slow" ELSE "ok",
                spawn |-> jobs[j].spawn_time, result |-> {j},
                n |-> jobs[j].minutes, replaced |-> <<>>]
    /\ UNCHANGED <<now, config, timers, saved>>

\* A pending job whose run_date has come is taken from the scheduler (its "date" trigger
\* has no further run) and runs BossTimer._send_reminder, whose send_message is "sent",
\* "failed" (it raises; the exception is caught and logged) or "slow" (the callback waits
\* in its await, the event loop goes on; nothing is written after the await).
send_reminder(j, send) ==
    /\ last = Idle
    /\ j \in DOMAIN jobs
    /\ jobs[j].run_date <= now
    /\ jobs' = Without(jobs, {j})
    /\ last' = [op |-> "fire", group_id |-> None, user_id |-> None, tid |-> jobs[j].timer_id,
                outcome |-> IF send = "failed" THEN "send_failed" ELSE IF send = "slow" THEN "send_slow" ELSE "ok",
                spawn |-> jobs[j].spawn_time, result |-> {j},
                n |-> jobs[j].minutes, replaced |-> <<>>]
    /\ UNCHANGED <<now, config, timers, saved>>

\* A due job whose send succeeds.
Fire(j) == send_reminder(j, "sent")

\* Time passes; the scheduler runs every due job before the clock moves on.
Tick ==
    /\ last = Idle
    /\ \A j \in DOMAIN jobs : jobs[j].run_date > now
    /\ now + 30 \in ClockValues
    /\ now' = now + 30
    /\ UNCHANGED <<config, timers, saved, jobs, last>>

\* BossTimer.terminate (the scheduler is shut down, the store written, the write doing
\* w_terminate) and a new __init__ (load_timers, then _restore_timers, its write doing
\* w_restore).
terminate_and_init(w_terminate, w_restore) ==
    /\ last = Idle
    /\ LET file == save_timers(saved, timers, w_terminate).file
           loaded == load_timers(file)
           r == restore_timers_writing(loaded, file, config, now, w_restore)
       IN  /\ timers' = r.timers
           /\ saved' = r.saved
           /\ jobs' = r.jobs
           /\ last' = Did("restore", NoEvent, None, IF r.raised THEN "error" ELSE "ok", 0,
                          ExpiredIds(loaded, now))
           /\ UNCHANGED <<now, config>>

\* BossTimer.terminate and a new __init__ when the writes succeed.
Restart == terminate_and_init("ok", "ok")

\* The handler has returned (its reply, if any, is handed to the framework); the event
\* loop takes the next event.
Return ==
    /\ last # Idle
    /\ last' = Idle
    /\ UNCHANGED <<now, config, timers, saved, jobs>>

Next ==
    \/ \E ev \in Events, msg \in DeathMessages : RecordDeath(ev, msg)
    \/ \E ev \in Events, a \in SetArgs : AddManual(ev, a)
    \/ \E ev \in Events, b \in AliasInputs : Cancel(ev, b)
    \/ Return
    \/ \E ev \in Events : List(ev)
    \/ \E ev \in Events, a \in BOOLEAN : Reset(ev, a)
    \/ \E j \in DOMAIN jobs : Fire(j)
    \/ Tick
    \/ Restart

Spec == Init /\ [][Next]_vars

\* ------------------------------------------------------------------ the clock resolver alone

\* A spawn time text as a user types it, with what it says: whether it carries a
\* date, and its month, day, hour, minute and second.
SpawnCase(text, dated, month, day, hour, minute, second) ==
    [text |-> text, dated |-> dated, month |-> month, day |-> day,
     hour |-> hour, minute |-> minute, second |-> second]

\* Texts given to /boss set: bare times, dated times, a full-width colon, blanks
\* around the text, and texts that name no time of day or no day of the year.
SpawnCases ==
    {
      SpawnCase(<<"1","5",":","3","0">>, FALSE, 0, 0, 15, 30, 0),
      SpawnCase(<<"1","6",":","0","0">>, FALSE, 0, 0, 16, 0, 0),
      SpawnCase(<<"1","6",":","0","0",":","0","1">>, FALSE, 0, 0, 16, 0, 1),
      SpawnCase(<<"0",":","0","0">>, FALSE, 0, 0, 0, 0, 0),
      SpawnCase(<<"2","3",":","5","9",":","5","9">>, FALSE, 0, 0, 23, 59, 59),
      SpawnCase(<<"1","5",FullWidthColon,"3","0">>, FALSE, 0, 0, 15, 30, 0),
      SpawnCase(<<" ","9",":","0","5"," ">>, FALSE, 0, 0, 9, 5, 0),
      SpawnCase(<<"0","1","-","1","0"," ","1","6",":","0","0">>, TRUE, 1, 10, 16, 0, 0),
      SpawnCase(<<"0","1","-","1","0"," ","1","5",":","3","0",":","0","0">>, TRUE, 1, 10, 15, 30, 0),
      SpawnCase(<<"1","-","1","1"," ","1","5",":","3","0">>, TRUE, 1, 11, 15, 30, 0),
      SpawnCase(<<"1","2","-","3","1"," ","2","3",":","5","9",":","5","9">>, TRUE, 12, 31, 23, 59, 59),
      SpawnCase(<<"0","2","-","2","9"," ","1","2",":","0","0">>, TRUE, 2, 29, 12, 0, 0),
      SpawnCase(<<"2","5",":","0","0">>, FALSE, 0, 0, 25, 0, 0),
      SpawnCase(<<"1","3","-","0","1"," ","1","0",":","0","0">>, TRUE, 13, 1, 10, 0, 0),
      SpawnCase(<<"1","5",":","6","0">>, FALSE, 0, 0, 15, 60, 0) }

\* The instants at which the texts are resolved.
ParseClock ==
    { MkTime(2024, 1, 10, 16, 0, 0), MkTime(2024, 1, 10, 15, 29, 59),
      MkTime(2024, 1, 10, 15, 30, 0), MkTime(2024, 1, 10, 0, 0, 0),
      MkTime(2024, 1, 10, 23, 59, 59), MkTime(2024, 1, 11, 15, 30, 0),
      MkTime(2024, 2, 29, 12, 0, 0), MkTime(2024, 12, 31, 23, 59, 59),
      MkTime(2025, 2, 28, 9, 5, 0), MkTime(2027, 12, 31, 16, 0, 0) }

\* cmd_set_boss_timer from the parsing of the spawn time to the check that it lies
\* in the future: the parsed instant is kept only if it is after now.
ResolveSpawnTime(c) ==
    /\ last = Idle
    /\ LET parsed == parse_spawn_time(c.text, now)
           outcome == IF ~parsed.ok THEN "invalid_time"
                      ELSE IF parsed.t <= now THEN "not_future"
                      ELSE "ok"
       IN  last' = Did("parse_spawn_time", NoEvent, c.text, outcome, parsed.t, {c})
    /\ UNCHANGED <<now, config, timers, saved, jobs>>

\* handle_boss_death from the parsing of the death time to the spawn time: the parsed
\* instant is taken as the death time as it is; a ValueError ends the handler.
ResolveDeathTime(time_part) ==
    /\ last = Idle
    /\ LET parsed == parse_death_time(time_part, now)
       IN  last' = [Did("parse_death_time", NoEvent, time_part,
                        IF parsed.ok THEN "ok" ELSE "invalid_time", parsed.t, {})
                    EXCEPT !.n = IF parsed.ok THEN calculate_spawn_time(Wdk, parsed.t) ELSE 0]
    /\ UNCHANGED <<now, config, timers, saved, jobs>>

\* No timer, no job; any configuration; the clock at one of the instants above.
InitParse ==
    /\ now \in ParseClock
    /\ config \in Configs
    /\ timers = <<>>
    /\ saved = <<>>
    /\ jobs = <<>>
    /\ last = Idle

NextParse ==
    \/ \E c \in SpawnCases : ResolveSpawnTime(c)
    \/ \E time_part \in { <<>>, <<"0">>, <<"3","0">>, <<"5","9">>, <<"6","0">>,
                           <<"1","5",":","3","0">>, <<"1","5",FullWidthColon,"2","9",":","5","9">>,
                           <<"0",":","0","0">>, <<"2","3",":","5","9",":","5","9">>,
                           <<"2","4",":","0","0">>, <<"x">> } : ResolveDeathTime(time_part)
    \/ Return

SpecParse == InitParse /\ [][NextParse]_vars

\* ------------------------------------------------------------------ the scheduler alone

\* The most jobs the scheduler holds in the behaviours of the scheduler alone.
MaxJobs == 3

\* Timer ids given to the scheduler: "1_wdk", "1_wdk2" (the first is a string prefix
\* of it) and "1_wdk_remind_x" (group "1" and a catalog key "wdk_remind_x").
SchedIds == { <<"1", "wdk">>, <<"1", "wdk2">>, <<"1", "wdk", "remind", "x">> }

\* Spawn times given to the scheduler: 2 and 3.5 minutes after the first instant.
SchedSpawns == { StartTime + 120, StartTime + 210 }

\* A call of scheduler.schedule_reminders with the configured intervals.
Schedule(timer_id, spawn_time) ==
    /\ last = Idle
    /\ jobs' = schedule_reminders(jobs, timer_id, Wdk, spawn_time, <<"qq", "group", "1">>,
                                  Intervals[config], now)
    /\ Cardinality(DOMAIN jobs') <= MaxJobs
    /\ last' = [Did("schedule", NoEvent, timer_id, "ok", spawn_time, {})
                   EXCEPT !.n = scheduled_count(spawn_time, Intervals[config], now)]
    /\ UNCHANGED <<now, config, timers, saved>>

\* A call of scheduler.cancel_reminder_jobs.
CancelAll(timer_id) ==
    /\ last = Idle
    /\ jobs' = cancel_reminder_jobs(jobs, timer_id)
    /\ last' = [Did("cancel_all", NoEvent, timer_id, "ok", 0, {})
                   EXCEPT !.n = cancelled_count(jobs, timer_id)]
    /\ UNCHANGED <<now, config, timers, saved>>

\* A scheduler without jobs; any configuration; the clock at one of its instants.
InitSched ==
    /\ now \in ClockValues
    /\ config \in Configs
    /\ timers = <<>>
    /\ saved = <<>>
    /\ jobs = <<>>
    /\ last = Idle

NextSched ==
    \/ \E id \in SchedIds, spawn \in SchedSpawns : Schedule(id, spawn)
    \/ \E id \in SchedIds : CancelAll(id)
    \/ Return

SpecSched == InitSched /\ [][NextSched]_vars

\* ------------------------------------------------------------------ the timer ids alone

\* Group ids, private user ids and catalog keys the timer id is derived from: ids
\* and keys with and without "_", and groups named "private" and "private_7".  A
\* user id is the last "_" segment of a message origin and holds no "_".
IdGroups == { <<"1">>, <<"1", "2">>, <<"private">>, <<"private", "7">> }
IdUsers == { <<"7">> }
IdKeys == { <<"wdk">>, <<"2", "wdk">>, <<"7", "wdk">> }

\* A handler derives the timer_id of (scope, boss) and stores the timer under it
\* (group_id is None for a private user, user_id is None for a group).
DeriveTimerId(group_id, user_id, boss_name) ==
    /\ last = Idle
    /\ LET timer_id == TimerId(group_id, user_id, boss_name)
       IN  /\ timer_id \in DOMAIN timers \/ Cardinality(DOMAIN timers) < MaxTimers
           /\ timers' = Put(timers, timer_id,
                            TimerData(boss_name, None, None, None, group_id, user_id))
           /\ last' = [Idle EXCEPT !.op = "derive_timer_id", !.group_id = group_id,
                                   !.user_id = user_id, !.tid = timer_id]
    /\ UNCHANGED <<now, config, saved, jobs>>

\* A stored timer is forgotten.
ForgetTimer(timer_id) ==
    /\ last = Idle
    /\ timer_id \in DOMAIN timers
    /\ timers' = Without(timers, {timer_id})
    /\ last' = [Idle EXCEPT !.op = "forget", !.tid = timer_id]
    /\ UNCHANGED <<now, config, saved, jobs>>

\* An empty store.
InitIds ==
    /\ now = StartTime
    /\ config \in Configs
    /\ timers = <<>>
    /\ saved = <<>>
    /\ jobs = <<>>
    /\ last = Idle

NextIds ==
    \/ \E g \in IdGroups, b \in IdKeys : DeriveTimerId(g, None, b)
    \/ \E u \in IdUsers, b \in IdKeys : DeriveTimerId(None, u, b)
    \/ \E id \in DOMAIN timers : ForgetTimer(id)
    \/ Return

SpecIds == InitIds /\ [][NextIds]_vars

\* ------------------------------------------------------------------ the program with failing writes and sends

\* The events of the runs in which a write of timers.json or a send may fail.
StoreEvents == {GroupEvent(G1), PrivateEvent(U7)}

\* BossTimer.__init__ on a timers.json that may be unreadable, under the configuration
\* that reminds 2 minutes and 1 minute ahead.
InitStore ==
    \E cfg \in {c \in Configs : Intervals[c] = <<2, 1>>}, file \in Snapshots \cup {Torn} :
        LET r == restore_timers(load_timers(file), file, cfg, StartTime)
        IN  /\ now = StartTime
            /\ config = cfg
            /\ timers = r.timers
            /\ saved = r.saved
            /\ jobs = r.jobs
            /\ last = Did("restore", NoEvent, None, "ok", 0, ExpiredIds(load_timers(file), StartTime))

NextStore ==
    \/ \E ev \in StoreEvents, msg \in {DeathMsg(In_uk, FALSE, None)}, w \in WriteOutcomes : handle_boss_death(ev, msg, w)
    \/ \E ev \in StoreEvents, a \in {<<In_Wdk, <<"1","0",":","0","1">> >>}, w \in WriteOutcomes : cmd_set_boss_timer(ev, a, w)
    \/ \E ev \in StoreEvents, b \in {In_Wdk, In_uk}, w \in WriteOutcomes : cancel_timer(ev, b, w)
    \/ \E ev \in StoreEvents, a \in BOOLEAN, w \in WriteOutcomes : reset_timers(ev, a, w)
    \/ \E w1, w2 \in WriteOutcomes : terminate_and_init(w1, w2)
    \/ \E j \in DOMAIN jobs, send \in {"sent", "failed", "slow"} : send_reminder(j, send)
    \/ Tick
    \/ Return

SpecStore == InitStore /\ [][NextStore]_vars

\* ------------------------------------------------------------------ the start alone

\* boss_config.load_bosses(data_dir, default_bosses_path) on a bosses.json and a default
\* file that are each "ok", "missing", "unreadable" or "malformed": the keys of the
\* catalog it returns, and whether it raises. A missing bosses.json is first replaced by
\* a copy of the default file; open and json.load are not guarded.
load_bosses(bosses_file, default_file) ==
    LET file == IF bosses_file = "missing" THEN default_file ELSE bosses_file
    IN  [bosses |-> IF file = "ok" THEN BossKeys ELSE {},
         raised |-> file \in {"unreadable", "malformed"}]

\* BossTimer.__init__ of a new process on the catalog files and the timers.json found.
\* Line 57 calls load_bosses with the one argument default_bosses_path; a call that does
\* not give both parameters raises before the function runs. An exception of
\* load_bosses leaves __init__; then no timer is loaded and no job armed.
BossTimer_init(bosses_file, default_file) ==
    /\ last = Idle
    /\ LET args == <<default_file>>
           catalog == IF Len(args) = 2 THEN load_bosses(args[1], args[2])
                      ELSE [bosses |-> {}, raised |-> TRUE]
           r == restore_timers(load_timers(saved), saved, config, now)
       IN  /\ timers' = IF catalog.raised THEN <<>> ELSE r.timers
           /\ saved' = IF catalog.raised THEN saved ELSE r.saved
           /\ jobs' = IF catalog.raised THEN <<>> ELSE r.jobs
           /\ last' = Did("init", NoEvent, <<bosses_file, default_file>>,
                          IF catalog.raised THEN "error" ELSE "ok", 0, catalog.bosses)
    /\ UNCHANGED <<now, config>>

\* No process yet; timers.json is absent, unreadable, holds two timers that cannot be
\* restored, or holds a timer of group 1 that spawns in 150 seconds.
InitStart ==
    /\ now \in ClockValues
    /\ config \in Configs
    /\ timers = <<>>
    /\ saved \in Snapshots \cup {Torn} \cup
                 { Put(<<>>, TimerId(G1, None, Uk),
                       TimerData(Uk, IsoFormat(StartTime), IsoFormat(StartTime + 150),
                                 GroupEvent(G1).umo, G1, None)) }
    /\ jobs = <<>>
    /\ last = Idle

NextStart ==
    \/ \E b, d \in {"ok", "missing", "unreadable", "malformed"} : BossTimer_init(b, d)
    \/ Return

SpecStart == InitStart /\ [][NextStart]_vars

\* ------------------------------------------------------------------ the alias lookup alone

\* A call of boss_config.get_boss_by_alias on the text of a message.
ResolveAlias(alias) ==
    /\ last = Idle
    /\ last' = [Did("resolve", NoEvent, alias, "ok", 0, {}) EXCEPT !.replaced = <<get_boss_by_alias(alias)>>]
    /\ UNCHANGED <<now, config, timers, saved, jobs>>

\* The plugin constructed on any of its configurations and timers.json files.
InitAlias ==
    /\ now \in ClockValues
    /\ config \in Configs
    /\ timers \in Snapshots
    /\ saved = timers
    /\ jobs = <<>>
    /\ last = Idle

\* Texts looked up: keys, aliases and the display name in several spellings, parts and
\* extensions of them, and a text of no entry.
NextAlias ==
    \/ \E alias \in { <<"w","d","k">>, <<"W","d","K">>, <<"u","k">>, <<"U","K">>, <<"v","k">>,
                       <<"V","k">>, <<"W","o","l","f">>, <<"w","o","l","f">>, <<"w","d">>,
                       <<"w","d","k","k">>, <<"k">>, <<"z","z">>, <<>> } : ResolveAlias(alias)
    \/ Return

SpecAlias == InitAlias /\ [][NextAlias]_vars

\* ------------------------------------------------------------------ the listing alone

\* Configurations whose two sets overlap: group "2" in set 1 through whitelist_groups and
\* core in set 2; group "2" core in set 1 and whitelisted in set 2; group "2" whitelisted in
\* both sets; group "2" core in set 2 only, next to a set-2 group "1_2"; group "2" in
\* both core lists.
GateConfigs ==
    { [whitelist_enabled |-> TRUE,
       whitelist_groups |-> l[1], core_groups |-> l[2],
       whitelist_groups_2 |-> l[3], core_groups_2 |-> l[4],
       whitelist_users |-> {U7},
       group_boss_filter_enabled |-> FALSE, filters_valid |-> TRUE, group_boss_filters |-> {},
       reminder_intervals |-> <<"1">>] :
      l \in { <<{G1, G2}, {}, {}, {G2}>>,
              <<{G1}, {G2}, {G2}, {}>>,
              <<{G1, G2}, {}, {G2}, {}>>,
              <<{G1}, {}, {G12}, {G2}>>,
              <<{G1}, {G2}, {G12}, {G2}>> } }

\* Stores of live timers: one timer of each of the groups "1", "2", "1_2" and of user 7,
\* and the same without the timer of group "2".
GateStores ==
    LET live(g, u, boss) ==
            TimerData(boss, IsoFormat(StartTime), IsoFormat(StartTime + 150),
                      IF g # None THEN GroupEvent(g).umo ELSE PrivateEvent(u).umo, g, u)
        base == Put(Put(Put(<<>>,
                    TimerId(G1, None, Wdk), live(G1, None, Wdk)),
                    TimerId(G12, None, Uk), live(G12, None, Uk)),
                    TimerId(None, U7, Wdk), live(None, U7, Wdk))
    IN  { base, Put(base, TimerId(G2, None, Uk), live(G2, None, Uk)) }

InitGate ==
    /\ now \in ClockValues
    /\ config \in GateConfigs
    /\ timers \in GateStores
    /\ saved = timers
    /\ jobs = <<>>
    /\ last = Idle

NextGate ==
    \/ \E ev \in {GroupEvent(G1), GroupEvent(G2), GroupEvent(G12), PrivateEvent(U7)} : List(ev)
    \/ Return

SpecGate == InitGate /\ [][NextGate]_vars

\* ------------------------------------------------------------------ properties

\* The leads of the pending jobs that belong to timer id.
PendingLeads(id) == {jobs[j].minutes : j \in {k \in DOMAIN jobs : jobs[k].timer_id = id}}

\* The configured leads whose fire time spawn - lead is after the instant t.
FutureLeads(spawn, t) ==
    {m \in {Intervals[config][i] : i \in 1..Len(Intervals[config])} : spawn - m * 60 > t}

\* The last handler was a report or an add that stored a timer.
Stored == last.op \in {"record_death", "add_manual"} /\ last.outcome = "ok"

\* C1: the store never holds two timers with the same owning scope and entity, and
\* after a successful report or add the stored timer of that key is the one the
\* latest call wrote (its spawn_time and its scope), also when it replaced a timer.
C1_OneTimerPerScopeAndEntity ==
    /\ \A a \in DOMAIN timers : \A b \in DOMAIN timers :
          (/\ timers[a].group_id = timers[b].group_id
           /\ timers[a].user_id = timers[b].user_id
           /\ timers[a].boss = timers[b].boss) => a = b
    /\ Stored =>
          /\ last.tid \in DOMAIN timers
          /\ timers[last.tid].spawn_time = IsoFormat(last.spawn)
          /\ timers[last.tid].group_id = last.group_id
          /\ timers[last.tid].user_id = last.user_id
          /\ TimerId(last.group_id, last.user_id, timers[last.tid].boss) = last.tid

\* C1 happens: a report or add has replaced a timer that had another spawn_time.
C1_Witness ==
    /\ Stored
    /\ last.replaced # <<>>
    /\ last.replaced[1].spawn_time # IsoFormat(last.spawn)

\* C2: after a successful report or add for a timer_id at the instant now, the leads
\* of the pending jobs of that timer_id are exactly the configured leads with
\* spawn_time - lead > now, and each of these jobs is one of the new spawn_time.
C2_JobsAreExactlyTheFutureLeads ==
    Stored =>
        /\ PendingLeads(last.tid) = FutureLeads(last.spawn, now)
        /\ \A j \in DOMAIN jobs :
              jobs[j].timer_id = last.tid =>
                 /\ jobs[j].spawn_time = last.spawn
                 /\ jobs[j].run_date = last.spawn - jobs[j].minutes * 60

\* C3: every stored timer that has a death_time has spawn_time = death_time plus the
\* hours, minutes and seconds of its catalog entry; the timer a manual add stores
\* has no death_time.
C3_SpawnIsDeathPlusRespawn ==
    /\ \A id \in DOMAIN timers :
          timers[id].death_time # None =>
             /\ IsoValid(timers[id].death_time)
             /\ IsoValid(timers[id].spawn_time)
             /\ FromIso(timers[id].spawn_time) =
                   FromIso(timers[id].death_time)
                   + BossData(timers[id].boss).respawn_hours * 3600
                   + BossData(timers[id].boss).respawn_minutes * 60
                   + BossData(timers[id].boss).respawn_seconds
    /\ (last.op = "add_manual" /\ last.outcome = "ok") => timers[last.tid].death_time = None

\* C3 happens: a manual add has replaced a timer that had a death_time while another
\* stored timer has one.
C3_Witness ==
    /\ last.op = "add_manual" /\ last.outcome = "ok"
    /\ last.replaced # <<>>
    /\ last.replaced[1].death_time # None
    /\ \E id \in DOMAIN timers : timers[id].death_time # None

C5_RestoreArmsExactlyTheFutureLeads ==
    last.op = "restore" =>
        /\ \A id \in DOMAIN timers :
              (IsoValid(timers[id].spawn_time) /\ FromIso(timers[id].spawn_time) > now) =>
                 /\ PendingLeads(id) = FutureLeads(FromIso(timers[id].spawn_time), now)
                 /\ Cardinality({j \in DOMAIN jobs : jobs[j].timer_id = id})
                       = Cardinality(FutureLeads(FromIso(timers[id].spawn_time), now))
                 /\ \A j \in DOMAIN jobs :
                       jobs[j].timer_id = id =>
                          /\ jobs[j].spawn_time = FromIso(timers[id].spawn_time)
                          /\ jobs[j].run_date = jobs[j].spawn_time - jobs[j].minutes * 60
        /\ \A j \in DOMAIN jobs : jobs[j].timer_id \in DOMAIN timers

\* C5 happens: a restore has armed a job for a timer and skipped a lead of it whose
\* fire time is not ahead.
C5_Witness ==
    /\ last.op = "restore"
    /\ \E id \in DOMAIN timers :
          /\ IsoValid(timers[id].spawn_time)
          /\ PendingLeads(id) # {}
          /\ \E i \in 1..Len(Intervals[config]) : Intervals[config][i] \notin PendingLeads(id)

\* C6: after a restore no stored timer has a spawn_time that is missing, unparsable
\* or not after now (the boundary spawn_time = now included), no pending job belongs
\* to a timer the restore removed, and if it removed one the snapshot is the store.
C6_RestorePrunesEveryExpiredTimer ==
    last.op = "restore" =>
        /\ \A id \in DOMAIN timers :
              /\ timers[id].spawn_time # None
              /\ IsoValid(timers[id].spawn_time)
              /\ FromIso(timers[id].spawn_time) > now
        /\ \A j \in DOMAIN jobs : jobs[j].timer_id \notin last.result
        /\ last.result # {} => saved = timers

\* The viewer of an event: its group (None in private chat) and its private user.
ViewerGroup(ev) == ev.group_id
ViewerUser(ev) == IF ev.group_id # None THEN None ELSE get_user_id(ev.umo)

\* C7: a timer owned by a private user is shown (by should_show_timer and in the
\* result of list_timers) to no group viewer and to no other private user.
C7_PrivateTimerOnlyForItsOwner ==
    \A id \in DOMAIN timers :
        timers[id].group_id = None =>
            \A ev \in Events :
                (\/ should_show_timer(id, timers[id], ViewerGroup(ev), ViewerUser(ev), config)
                 \/ id \in list_timers(timers, ev, config, now))
                => (ViewerGroup(ev) = None /\ ViewerUser(ev) = timers[id].user_id)

\* C7 happens: a private user has listed and got their own timer while the store
\* holds a live timer of another private user.
C7_Witness ==
    /\ last.op = "list" /\ last.group_id = None
    /\ last.result # {}
    /\ \E id \in DOMAIN timers \ last.result :
          /\ timers[id].group_id = None
          /\ timers[id].user_id # last.user_id
          /\ FromIso(timers[id].spawn_time) > now

\* C8: a group-owned timer is shown to no group viewer whose set (1, 2 or none)
\* differs from the set of the owning group, whether or not either is a core group.
C8_SetsAreIsolated ==
    \A id \in DOMAIN timers :
        timers[id].group_id # None =>
            \A ev \in Events :
                LET SetOf(g) ==
                        IF g \in config.whitelist_groups \cup config.core_groups THEN 1
                        ELSE IF g \in config.whitelist_groups_2 \cup config.core_groups_2 THEN 2
                        ELSE 0
                IN  (ViewerGroup(ev) # None /\ SetOf(ViewerGroup(ev)) # SetOf(timers[id].group_id))
                    => /\ ~should_show_timer(id, timers[id], ViewerGroup(ev), ViewerUser(ev), config)
                       /\ id \notin list_timers(timers, ev, config, now)

\* C8 happens: groups "1" (Set 1) and "2" (Set 2), both core, track the same boss and
\* the list of group "1" holds its own timer alone.
C8_Witness ==
    /\ last.op = "list" /\ last.group_id = G1
    /\ G1 \in config.core_groups /\ G2 \in config.core_groups_2
    /\ last.result = {TimerId(G1, None, Wdk)}
    /\ TimerId(G2, None, Wdk) \in DOMAIN timers
    /\ FromIso(timers[TimerId(G2, None, Wdk)].spawn_time) > now

\* C9: for a group viewer V and a timer of a group G of the same set, the timer is
\* shown if V is a core group, and otherwise it is shown iff G = V.
C9_SameSetCoreSeesAllOthersOwn ==
    \A id \in DOMAIN timers :
        timers[id].group_id # None =>
            \A ev \in Events :
                LET SetOf(g) ==
                        IF g \in config.whitelist_groups \cup config.core_groups THEN 1
                        ELSE IF g \in config.whitelist_groups_2 \cup config.core_groups_2 THEN 2
                        ELSE 0
                    shown == should_show_timer(id, timers[id], ViewerGroup(ev), ViewerUser(ev), config)
                IN  (/\ ViewerGroup(ev) # None
                     /\ SetOf(ViewerGroup(ev)) # 0
                     /\ SetOf(ViewerGroup(ev)) = SetOf(timers[id].group_id))
                    => IF ViewerGroup(ev) \in config.core_groups \cup config.core_groups_2
                       THEN shown
                       ELSE shown <=> (timers[id].group_id = ViewerGroup(ev))

\* C10: the result of a list is exactly the stored timers whose spawn_time is after
\* now, that are visible to the viewer (the private owner; or a group of the same set
\* that is core or is the owning group) and whose boss the viewer group's non-empty
\* filter, if it has one, allows.
C10_ListIsExactlyLiveVisibleAllowed ==
    last.op = "list" =>
        LET SetOf(g) ==
                IF g \in config.whitelist_groups \cup config.core_groups THEN 1
                ELSE IF g \in config.whitelist_groups_2 \cup config.core_groups_2 THEN 2
                ELSE 0
            Visible(id) ==
                IF last.group_id = None
                THEN timers[id].group_id = None /\ timers[id].user_id = last.user_id
                ELSE /\ timers[id].group_id # None
                     /\ SetOf(timers[id].group_id) = SetOf(last.group_id)
                     /\ \/ last.group_id \in config.core_groups \cup config.core_groups_2
                        \/ timers[id].group_id = last.group_id
            Allowed(id) ==
                \/ last.group_id = None
                \/ ~config.group_boss_filter_enabled
                \/ ~config.filters_valid
                \/ \A p \in config.group_boss_filters :
                      (p[1] = last.group_id /\ p[2] # {}) => timers[id].boss \in p[2]
        IN  last.result =
                {id \in DOMAIN timers :
                    /\ IsoValid(timers[id].spawn_time)
                    /\ FromIso(timers[id].spawn_time) > now
                    /\ Visible(id)
                    /\ Allowed(id)}

GateRejects(ev) ==
    IF ViewerGroup(ev) # None
    THEN /\ config.whitelist_enabled
         /\ ViewerGroup(ev) \notin (config.whitelist_groups \cup config.core_groups \cup
                                     config.whitelist_groups_2 \cup config.core_groups_2)
    ELSE ViewerUser(ev) \notin config.whitelist_users

\* The group boss filter as the configuration defines it: filtering is enabled, the
\* filters parse, and the group has a non-empty filter that lacks the boss.
FilterExcludes(g, boss_name) ==
    /\ g # None
    /\ config.group_boss_filter_enabled
    /\ config.filters_valid
    /\ \E p \in config.group_boss_filters : p[1] = g /\ p[2] # {} /\ boss_name \notin p[2]

\* C12: a reset sent from a group by a caller without administrator rights, or sent
\* from a scope the permission gate rejects (a group in none of the four lists while
\* whitelisting is on; a private user outside the user whitelist), leaves the timer
\* store, the snapshot and the pending jobs exactly as they were.
C12_RejectedResetChangesNothing ==
    [][\A ev \in Events, is_admin \in BOOLEAN :
          (/\ Reset(ev, is_admin)
           /\ (ViewerGroup(ev) # None /\ ~is_admin) \/ GateRejects(ev))
          => UNCHANGED <<timers, saved, jobs>>]_vars

\* C12 happens: a reset was refused by the permission gate while timers were stored
\* and jobs were pending.
C12_Witness ==
    /\ last.op = "reset" /\ last.outcome = "scope_disabled"
    /\ timers # <<>> /\ jobs # <<>> /\ saved = timers

\* C13: a death report or a manual add that ends in an error (the alias resolves to
\* no boss, the time does not parse, the permission gate rejects the scope, the
\* group's filter excludes the boss, or, for a manual add, the time is not in the
\* future) leaves the timer store, the snapshot and the pending jobs as they were:
\* a step of either handler that changes one of them ended in success and was taken
\* on no input for which one of these error conditions holds.
C13_ErrorsChangeNothing ==
    [][(/\ last = Idle
        /\ last'.op \in {"record_death", "add_manual"}
        /\ ~UNCHANGED <<timers, saved, jobs>>)
       => /\ last'.outcome = "ok"
          /\ \A ev \in Events, msg \in DeathMessages :
                (\/ ResolveDeathBoss(msg) = None
                 \/ ~DeathTimeAt[msg, now].ok
                 \/ GateRejects(ev)
                 \/ FilterExcludes(ViewerGroup(ev), ResolveDeathBoss(msg)))
                => ~RecordDeath(ev, msg)
          /\ \A ev \in Events, args \in SetArgs :
                (\/ get_boss_by_alias(Lower(args[1])) = None
                 \/ ~SpawnTimeAt[args, now].ok
                 \/ SpawnTimeAt[args, now].t <= now
                 \/ GateRejects(ev)
                 \/ FilterExcludes(ViewerGroup(ev), get_boss_by_alias(Lower(args[1]))))
                => ~AddManual(ev, args)]_vars

\* C13 happens: a manual add was refused for its unparsable time while timers were
\* stored and jobs were pending.
C13_Witness ==
    /\ last.op = "add_manual" /\ last.outcome = "invalid_time"
    /\ timers # <<>> /\ jobs # <<>> /\ saved = timers

\* C14: a timer is created or replaced only by a caller whose scope passes the
\* permission gate: a group when whitelisting is off or the group is in the whitelist
\* or core list of Set 1 or Set 2; a private user when the user whitelist is not
\* empty and contains the user (whitelisting being off does not open private chat).
C14_OnlyEnabledScopesStore ==
    Stored =>
        IF last.group_id # None
        THEN \/ ~config.whitelist_enabled
             \/ last.group_id \in (config.whitelist_groups \cup config.core_groups \cup
                                    config.whitelist_groups_2 \cup config.core_groups_2)
        ELSE /\ config.whitelist_users # {}
             /\ last.user_id \in config.whitelist_users

\* C14 happens: with whitelisting off, a group that is in none of the lists has
\* stored a timer, while the user whitelist is empty.
C14_Witness ==
    /\ Stored
    /\ ~config.whitelist_enabled /\ config.whitelist_users = {}
    /\ last.group_id = G2
    /\ G2 \notin (config.whitelist_groups \cup config.core_groups \cup
                   config.whitelist_groups_2 \cup config.core_groups_2)
    /\ last.tid \in DOMAIN timers

\* C15: with the group boss filter enabled and a group G that has a non-empty filter
\* F, no death report and no manual add from G creates or replaces a timer of a boss
\* outside F; and when the filter is disabled, or G has no filter (also because the
\* filters do not parse) or an empty one, no report or add from G is refused for the
\* filter, so every boss of the catalog may be tracked by G.
C15_FilterRestrictsExactlyItsGroups ==
    [][/\ (last = Idle /\ Stored')
          => ~FilterExcludes(last'.group_id, timers'[last'.tid].boss)
       /\ (last = Idle /\ last'.outcome = "entity_filtered")
          => \A ev \in Events :
                (/\ ViewerGroup(ev) # None
                 /\ \/ ~config.group_boss_filter_enabled
                    \/ ~config.filters_valid
                    \/ \A p \in config.group_boss_filters : p[1] = ViewerGroup(ev) => p[2] = {})
                => /\ \A msg \in DeathMessages : ~RecordDeath(ev, msg)
                   /\ \A args \in SetArgs : ~AddManual(ev, args)]_vars

\* C15 happens: group "1_2", whose filter allows wdk alone, has stored a wdk timer.
C15_Witness ==
    /\ Stored
    /\ last.group_id = G12
    /\ FilterExcludes(G12, Uk) /\ ~FilterExcludes(G12, Wdk)
    /\ last.tid \in DOMAIN timers /\ timers[last.tid].boss = Wdk

\* C16: whenever parse_spawn_time returns an instant, the instant is strictly later
\* than now: a bare time of day that is not after now is taken tomorrow, a dated time
\* that is not after now is taken next year; hence the future check of the manual
\* add never refuses a parsed time and every timer it creates spawns after now.
C16_SpawnTimeIsAlwaysFuture ==
    last.op = "parse_spawn_time" =>
        /\ last.outcome \in {"ok", "invalid_time"}
        /\ last.outcome = "ok" =>
              /\ last.spawn > now
              /\ \A c \in last.result :
                    LET this == IF c.dated
                                THEN MkTime(YearOf(now), c.month, c.day, c.hour, c.minute, c.second)
                                ELSE DayStart(now) + TimeDelta(c.hour, c.minute, c.second)
                        rolled == IF c.dated
                                  THEN MkTime(YearOf(now) + 1, c.month, c.day, c.hour, c.minute, c.second)
                                  ELSE this + 86400
                    IN  last.spawn = IF this > now THEN this ELSE rolled

\* C16 happens: "15:30" typed at 16:00 on 2024-01-10 gives 2024-01-11 15:30.
C16_Witness ==
    /\ last.op = "parse_spawn_time" /\ last.outcome = "ok"
    /\ now = MkTime(2024, 1, 10, 16, 0, 0)
    /\ last.tid = <<"1","5",":","3","0">>
    /\ last.spawn = MkTime(2024, 1, 11, 15, 30, 0)

\* What a call of schedule does to the jobs, whatever it returns: a job is armed for
\* a lead L (pending afterwards under the key of the timer and L, due at
\* spawn_time - L) if and only if spawn_time - L > now, the job of a past-due lead and
\* every other job are as they were, and the reminder callback is invoked for no lead.
ScheduleArms(js, js2, timer_id, spawn_time, leads, at, invoked) ==
    LET future == {L \in leads : spawn_time - L * 60 > at}
        armed == {JobId(timer_id, L) : L \in future}
    IN  /\ \A L \in future :
              /\ JobId(timer_id, L) \in DOMAIN js2
              /\ js2[JobId(timer_id, L)].run_date = spawn_time - L * 60
              /\ js2[JobId(timer_id, L)].spawn_time = spawn_time
              /\ js2[JobId(timer_id, L)].minutes = L
        /\ DOMAIN js2 = DOMAIN js \cup armed
        /\ \A k \in DOMAIN js \ armed : js2[k] = js[k]
        /\ invoked = {}

C18_NeverFiresEarly ==
    /\ last.op = "fire" => now >= last.spawn - last.n * 60
    /\ \A j \in DOMAIN jobs : jobs[j].run_date = jobs[j].spawn_time - jobs[j].minutes * 60

\* C18 happens: after the clock has advanced, a job has fired at its fire_at.
C18_Witness ==
    /\ last.op = "fire"
    /\ now > StartTime
    /\ now = last.spawn - last.n * 60

\* C19: an armed reminder job invokes the callback at most once and firing never
\* re-arms it: the step that fires a job removes that job from the pending jobs and
\* touches no other job, and a job key becomes pending, or is pending with other
\* data, only by a step of a handler that calls schedule (a death report, a manual
\* add, the restoration at start).
C19_FiresOnceNeverRearmed ==
    [][/\ (last = Idle /\ last'.op = "fire")
          => \A j \in last'.result :
                /\ j \in DOMAIN jobs
                /\ j \notin DOMAIN jobs'
                /\ jobs' = Without(jobs, {j})
       /\ \A j \in DOMAIN jobs' :
             (j \notin DOMAIN jobs \/ jobs'[j] # jobs[j])
             => last'.op \in {"record_death", "add_manual", "restore"}]_vars

\* C19 happens: the 2-minute job of a stored timer has fired and is gone while the
\* 1-minute job of the same timer is still pending.
C19_Witness ==
    /\ last.op = "fire" /\ last.n = 2
    /\ last.result \cap DOMAIN jobs = {}
    /\ last.tid \in DOMAIN timers
    /\ PendingLeads(last.tid) = {1}

\* C20: a call of cancel_all(timer_id) removes every pending job of that timer_id and
\* returns their number (0 when there is none), and leaves every pending job of any
\* other timer_id as it was, also of a timer_id that has the argument as a prefix.
C20_CancelAllRemovesExactlyOwnJobs ==
    [][(last = Idle /\ last'.op = "cancel_all")
       => LET own == {k \in DOMAIN jobs : jobs[k].timer_id = last'.tid}
          IN  /\ jobs' = Without(jobs, own)
              /\ last'.n = Cardinality(own)]_vars

\* C21: the timer_id is an injective function of (scope, boss): whenever a timer_id
\* is derived, a stored timer has that timer_id if and only if it has the same scope
\* (group id or private user id) and the same boss, also for ids and keys holding "_"
\* and for a group named "private".
C21_TimerIdIsInjective ==
    [][(last = Idle /\ last'.op = "derive_timer_id")
       => \A id \in DOMAIN timers :
             (id = last'.tid)
             <=> (/\ timers[id].group_id = last'.group_id
                  /\ timers[id].user_id = last'.user_id
                  /\ timers[id].boss = timers'[last'.tid].boss)]_vars

\* The jobs of the timers ids.
JobsOfTimers(js, ids) == {k \in DOMAIN js : js[k].timer_id \in ids}

\* C22: when the write of the snapshot fails during an accepted record_death, add_manual, cancel or
\* reset (the file afterwards is not the new store), the operation still completes: the
\* store in memory holds the new timer (or has lost the cancelled ones, or is empty), the
\* jobs are those the operation arms or leaves when the write succeeds, and the handler
\* ends without an error.
C22_FailedWriteKeepsTheOperation ==
    [][(/\ last = Idle
        /\ last'.op \in {"record_death", "add_manual", "cancel", "reset"}
        /\ last'.outcome \in {"ok", "error"}
        /\ saved' # timers')
       => /\ last'.outcome = "ok"
          /\ last'.op \in {"record_death", "add_manual"}
                => /\ DOMAIN timers' = DOMAIN timers \cup {last'.tid}
                   /\ FromIso(timers'[last'.tid].spawn_time) = last'.spawn
                   /\ \A id \in DOMAIN timers \ {last'.tid} : timers'[id] = timers[id]
                   /\ jobs' = schedule_reminders(
                                  IF last'.tid \notin DOMAIN timers THEN jobs
                                  ELSE IF last'.op = "record_death"
                                       THEN Without(jobs, DeathStaleJobs(jobs, last'.tid))
                                  ELSE cancel_reminder_jobs(jobs, last'.tid),
                                  last'.tid, timers'[last'.tid].boss, last'.spawn,
                                  timers'[last'.tid].umo, Intervals[config], now)
          /\ last'.op = "cancel"
                => /\ last'.result # {}
                   /\ timers' = Without(timers, last'.result)
                   /\ jobs' = Without(jobs, JobsOfTimers(jobs, last'.result))
          /\ last'.op = "reset" => timers' = <<>> /\ jobs' = <<>>]_vars

\* A death report has stored its timer and armed its reminders while the write of the
\* snapshot left an unreadable file.
C22_Witness ==
    /\ last.op = "record_death" /\ last.outcome = "ok"
    /\ saved = Torn
    /\ last.tid \in DOMAIN timers
    /\ JobsOfTimers(jobs, {last.tid}) # {}

\* C23: while the writes of the snapshot succeed, the snapshot read back is the store in
\* memory whenever no handler is running or one has just finished (after a death report,
\* a manual timer, a cancel that removed a timer, a reset, a restore that pruned a
\* timer): a restart at that point, also one without terminate, reloads the current store.
C23_SnapshotIsTheStore == load_timers(saved) = timers

\* A cancel has removed a timer while another one stays, and the file holds the rest.
C23_Witness ==
    /\ last.op = "cancel" /\ last.result # {}
    /\ timers # <<>>
    /\ load_timers(saved) = timers

\* C24: a write of the snapshot is atomic: whenever a step changes timers.json, a load
\* of the file afterwards returns the map the file held before or a map the step set out
\* to write (the store before terminate, the store after the step), never an empty or
\* partial map in their place.
C24_WriteIsAtomic ==
    [][saved' # saved => load_timers(saved') \in {load_timers(saved), timers, timers'}]_vars

\* C25: scheduling is idempotent per key: after a death report or a manual timer has
\* armed the jobs of its timer, scheduling the same timer with the same leads again at
\* the same instant leaves the pending jobs as they are; and no two pending jobs have
\* the same timer and the same lead, also when the configured list names a lead twice.
C25_ScheduleIsIdempotentPerKey ==
    [][/\ \A j, k \in DOMAIN jobs' :
             (jobs'[j].timer_id = jobs'[k].timer_id /\ jobs'[j].minutes = jobs'[k].minutes)
             => j = k
       /\ (last = Idle /\ last'.op \in {"record_death", "add_manual"} /\ last'.outcome = "ok")
             => schedule_reminders(jobs', last'.tid, timers'[last'.tid].boss, last'.spawn,
                                   timers'[last'.tid].umo, Intervals[config], now) = jobs']_vars

\* A timer is stored under a configuration that names the lead 1 twice, and the one job
\* of that lead is pending.
C25_Witness ==
    /\ Intervals[config] = <<1, 1>>
    /\ last.op = "record_death" /\ last.outcome = "ok"
    /\ Cardinality(JobsOfTimers(jobs, {last.tid})) = 1

\* C26: a listing deletes the timers it finds expired: after a listing at the instant
\* now the store holds no timer whose spawn time is now or earlier.
C26_ListingDeletesExpired ==
    last.op = "list"
    => \A id \in DOMAIN timers :
          (timers[id].spawn_time # None /\ IsoValid(timers[id].spawn_time))
          => FromIso(timers[id].spawn_time) > now

C29_FiresInNonDecreasingLeadOrder ==
    last.op = "fire"
    => \A k \in DOMAIN jobs :
          (jobs[k].timer_id = last.tid /\ jobs[k].spawn_time = last.spawn)
          => last.n <= jobs[k].minutes

\* C29, amended: the reminders of one timer schedule fire in non-increasing order of
\* lead (the longest lead first): when the job of lead a fires, every job of the same
\* timer and spawn time that is still pending has a lead b with a >= b, and runs later.
C29_FiresInNonIncreasingLeadOrder ==
    last.op = "fire"
    => \A k \in DOMAIN jobs :
          (jobs[k].timer_id = last.tid /\ jobs[k].spawn_time = last.spawn)
          => /\ last.n >= jobs[k].minutes
             /\ jobs[k].run_date > now

\* The reminder of lead 2 has fired while the reminder of lead 1 of the same timer
\* schedule is pending.
C29_Witness ==
    /\ last.op = "fire" /\ last.n = 2
    /\ \E k \in DOMAIN jobs :
          jobs[k].timer_id = last.tid /\ jobs[k].spawn_time = last.spawn /\ jobs[k].minutes = 1

\* C30: a timer owned by a group that is in no set is never visible: no listing, by any
\* viewer (the owning group and other groups in no set included), shows a timer whose
\* owning group is neither in set 1 nor in set 2.
C30_UngroupedTimersAreNeverListed ==
    last.op = "list"
    => \A id \in last.result :
          timers[id].group_id # None => get_group_set(timers[id].group_id, config) # 0

\* C31: a catalog that cannot be loaded at the start (bosses.json and the default file
\* missing, or the file used unreadable or malformed) does not abort the initialisation:
\* __init__ ends without an error, with an empty catalog, and the timers of timers.json
\* are loaded and their reminders armed.
C31_CatalogFailureDoesNotAbortInit ==
    [][(/\ last = Idle
        /\ last'.op = "init"
        /\ \/ last'.tid[1] \in {"unreadable", "malformed"}
           \/ last'.tid[1] = "missing" /\ last'.tid[2] # "ok")
       => /\ last'.outcome = "ok"
          /\ last'.result = {}
          /\ timers' = restore_timers(load_timers(saved), saved, config, now).timers
          /\ jobs' = restore_timers(load_timers(saved), saved, config, now).jobs]_vars

\* C32: the alias lookup returns the key of the last catalog entry (in catalog order)
\* whose key, display name or one of whose aliases equals the text ignoring letter case,
\* and None when no entry has one; a part or an extension of a name resolves to nothing.
C32_ResolvesToLastEntryNamingTheText ==
    last.op = "resolve"
    => LET naming == {i \in 1..Len(Bosses) :
                        \/ Lower(Bosses[i].key) = Lower(last.tid)
                        \/ Bosses[i].display_name # <<>>
                              /\ Lower(Bosses[i].display_name) = Lower(last.tid)
                        \/ \E a \in 1..Len(Bosses[i].aliases) :
                              Lower(Bosses[i].aliases[a]) = Lower(last.tid)}
       IN  last.replaced[1] =
              IF naming = {} THEN None
              ELSE Ident(Bosses[CHOOSE i \in naming : \A j \in naming : j <= i].key)

\* C33: a reminder that fires carries the spawn time and the boss of the timer stored
\* under its timer id at that moment: once a timer has been replaced by a newer death
\* report or manual timer, no reminder computed from the replaced spawn time is delivered.
C33_FiredReminderIsOfTheStoredTimer ==
    [][(last = Idle /\ last'.op = "fire")
       => \A j \in last'.result :
             /\ jobs[j].timer_id \in DOMAIN timers
             /\ timers[jobs[j].timer_id].spawn_time = IsoFormat(jobs[j].spawn_time)
             /\ timers[jobs[j].timer_id].boss = jobs[j].boss]_vars

\* C34: no orphan jobs: in every state reached by death reports, manual timers, cancels,
\* resets, restores and firing jobs, the timer id of every pending job is the key of a
\* timer in the store.
C34_NoOrphanJobs == \A j \in DOMAIN jobs : jobs[j].timer_id \in DOMAIN timers

\* A cancel has removed one timer and its jobs while the jobs of another timer are
\* pending.
C34_Witness ==
    /\ last.op = "cancel" /\ last.n > 0
    /\ \E j \in DOMAIN jobs : jobs[j].timer_id \in DOMAIN timers \ last.result

\* C35: a death report (or manual timer) from scope S for boss E does not add, remove or
\* modify a stored timer of a different (scope, boss) pair: every timer whose group,
\* user or boss differs from those of the request is in the store afterwards as before.
C35_OtherPairsAreUntouched ==
    [][(last = Idle /\ last'.op = "derive_timer_id")
       => \A id \in DOMAIN timers :
             ~(/\ timers[id].group_id = last'.group_id
               /\ timers[id].user_id = last'.user_id
               /\ timers[id].boss = timers'[last'.tid].boss)
             => id \in DOMAIN timers' /\ timers'[id] = timers[id]]_vars

\* C36: core visibility is granted only inside the set where the group is listed as core.
\* A listing asked by a group that is in set 1 through whitelist_groups only (not in
\* core_groups) and that also appears in core_groups_2 shows no timer of another group;
\* and a group listed in both sets is in set 1.
C36_CoreOnlyInsideItsOwnSet ==
    (last.op = "list" /\ last.group_id # None)
    => LET g == last.group_id
       IN  /\ (g \in config.whitelist_groups /\ g \notin config.core_groups
                 /\ g \in config.core_groups_2)
              => \A id \in last.result : timers[id].group_id = g
           /\ (/\ g \in config.whitelist_groups \cup config.core_groups
               /\ g \in config.whitelist_groups_2 \cup config.core_groups_2)
              => get_group_set(g, config) = 1

\* C37: the death time that a death report records is never later than now: for every
\* accepted time fragment (empty, a bare minute 0-59, HH:MM[:SS]) the resolved instant is
\* at or before now, so the spawn time is at most now plus the respawn duration.
C37_DeathTimeIsNotInTheFuture ==
    (last.op = "parse_death_time" /\ last.outcome = "ok")
    => /\ last.spawn <= now
       /\ last.n <= calculate_spawn_time(Wdk, now)
====
